---- MODULE Spec2Model ----
(***************************************************************************)
(* The sync engine of calendarsync (src/app/sync/logic.py): source fetch   *)
(* with window filtering, the destination-index lookup, and the batched    *)
(* upsert, run by sync_calendar_logic.  Two runs of one configuration may  *)
(* overlap; every network call is a step that can fail.  SpecLookup and    *)
(* SpecUpsert run the destination lookup and the upsert engine on their    *)
(* own on larger inputs; SpecErr runs one configuration over every state   *)
(* of the stored document and credentials.                                 *)
(*                                                                         *)
(* Time is counted in ticks (TicksPerDay per day).  UIDs and destination   *)
(* event ids are positive integers; 0 stands for a missing or empty value. *)
(* An absent optional value is the record None.                            *)
(***************************************************************************)
EXTENDS Integers, Sequences, FiniteSets, TLC

\* ---------------------------------------------------------------- bounds
TicksPerDay == 2
MaxTicks == 1
MaxFailPos == 2
MaxUids == 120
DestEvery == 3
DestIdBase == 100
MaxItems == 120
SkipEvery == 7
PageSize == 2
ResolveItems == 60

\* ------------------------------------------------------ program constants
SYNC_WINDOW_PAST_DAYS == 30
SYNC_WINDOW_FUTURE_DAYS == 365
batch_limit == 50
BATCH_LIMIT == 50

\* ---------------------------------------------------------------- helpers
None == [kind |-> "none"]

Min(a, b) == IF a <= b THEN a ELSE b

Range(s) == {s[i] : i \in 1..Len(s)}

Drop(f, k) == [j \in DOMAIN f \ {k} |-> f[j]]

RECURSIVE Flatten(_)
Flatten(ss) == IF ss = <<>> THEN <<>> ELSE Head(ss) \o Flatten(Tail(ss))

SortAsc(S) ==
  [i \in 1..Cardinality(S) |->
     CHOOSE x \in S : Cardinality({y \in S : y < x}) = i - 1]

Reverse(s) == [i \in 1..Len(s) |-> s[Len(s) + 1 - i]]

\* ------------------------------------------------------------------ time
Now0 == 100 * TicksPerDay

Nows == Now0 .. (Now0 + MaxTicks)

\* get_sync_window_dates: 30 days past -> 365 days future
get_sync_window_dates(now) ==
  [start |-> now - SYNC_WINDOW_PAST_DAYS * TicksPerDay,
   end   |-> now + SYNC_WINDOW_FUTURE_DAYS * TicksPerDay]

\* ---------------------------------------------------------------- world
\* An iCalendar VEVENT component as the parser hands it over.
VEvent(uid, summary, dtstart, dtend, duration, rrule) ==
  [google |-> FALSE, uid |-> uid, summary |-> summary,
   description |-> "d-" \o summary, location |-> "",
   dtstart |-> dtstart, dtend |-> dtend, duration |-> duration,
   rrule |-> rrule]

\* An event resource of the remote calendar API.
GEvent(id, summary, start, end) ==
  [google |-> TRUE, id |-> id, summary |-> summary,
   description |-> "d-" \o summary, location |-> "room",
   start |-> start, end |-> end]

\* datetime.isoformat() of an instant: the instant and the offset it is
\* printed with ("utc", or the event's own zone).
IsoDT(t, tz) == [t |-> t, tz |-> tz]

DateV(d) == [kind |-> "date", v |-> d]
NaiveV(t) == [kind |-> "naive", v |-> t]
AwareV(t) == [kind |-> "aware", v |-> t]
DurV(n) == [kind |-> "dur", v |-> n]

\* 40 days before the first possible run instant, as a calendar day.
OldDay == 100 - 40

\* 31 days before the first possible run instant: the day before the
\* window of every run starts.
SpanDay == 100 - 31

\* first tick after the window end of a run at Now0; the window end of a
\* run one tick later.
EdgeTick == Now0 + SYNC_WINDOW_FUTURE_DAYS * TicksPerDay + 1

ICalLocators == {"A", "B", "E", "N", "O", "R"}
GoogleCalendars == {"G", "H"}

\* What each feed serves (unchanged between runs).  X-WR-CALNAME is given
\* for A and O only.
FeedName(url) ==
  CASE url = "A" -> "Cal A"
    [] url = "O" -> "Cal O"
    [] OTHER -> ""

FeedEvents(url) ==
  CASE url = "A" ->
         << VEvent(1, "a", NaiveV(Now0), AwareV(Now0 + 1), None, FALSE) >>
    [] url = "B" ->
         << VEvent(3, "weekly", DateV(OldDay), None, DurV(TicksPerDay), TRUE) >>
    [] url = "E" ->
         << VEvent(4, "edge", AwareV(EdgeTick), None, DurV(1), FALSE),
            VEvent(0, "nouid", DateV(100 - SYNC_WINDOW_PAST_DAYS), None, None, FALSE),
            VEvent(5, "nostart", None, None, None, TRUE),
            VEvent(10, "naive", NaiveV(Now0), None, DurV(1), FALSE) >>
    [] url = "N" ->
         << VEvent(0, "anon", AwareV(EdgeTick), None, DurV(1), FALSE) >>
    [] url = "O" ->
         << VEvent(2, "old", DateV(OldDay), None, None, FALSE) >>
    [] url = "R" ->
         << VEvent(2, "old", DateV(OldDay), None, None, TRUE) >>
    [] OTHER -> << >>

GCalSummary(id) == "Cal G"

\* The events the remote calendars G and H return, in start order.  The
\* one item of H carries neither start nor end.
GCalEvents(id) ==
  IF id = "G"
  THEN << GEvent(7, "gold", [date |-> OldDay], [date |-> OldDay + 1]),
          GEvent(8, "gspan", [date |-> SpanDay], [date |-> SpanDay + 2]),
          GEvent(6, "g", [dateTime |-> IsoDT(Now0, "own")],
                 [dateTime |-> IsoDT(Now0 + 1, "own")]),
          GEvent(11, "glast", [date |-> 101], [date |-> 102]) >>
  ELSE IF id = "H"
  THEN << GEvent(9, "gnostart", None, None) >>
  ELSE << >>

Source(type, url, prefix) == [type |-> type, url |-> url, prefix |-> prefix]

\* The configurations a sync document can hold (sources as stored by the
\* form handler; type "" is a legacy source without a type).
Configs ==
  { << Source("ical", "A", "P1"), Source("", "B", "P2") >>,
    << Source("ical", "A", "P1"), Source("ical", "A", "P2") >>,
    << Source("ical", "E", "") >>,
    << Source("ical", "N", "") >>,
    << Source("ical", "O", "") >>,
    << Source("ical", "R", "") >>,
    << Source("google", "G", "PG") >>,
    << Source("google", "H", "") >> }

BaseUrl == "https://calendarsync.billnapier.com"

\* ------------------------------------------------- source fetch adapters
\* source.get("type", "ical")
SourceType(source) == IF source.type = "" THEN "ical" ELSE source.type

\* key = (source.get("type", "ical"), source.get("url", source.get("id")))
SourceKey(source) == << SourceType(source), source.url >>

\* The instant the window filter compares: a date is midnight UTC of that
\* day, a naive datetime is taken as UTC.
NormalizedStart(dt) ==
  IF dt.kind = "date" THEN dt.v * TicksPerDay ELSE dt.v

IncludeAnyStart(component, window_start, window_end) ==
  component.rrule \/ component.dtstart # None

IncludeInsideOnly(component, window_start, window_end) ==
  \/ component.rrule
  \/ /\ component.dtstart # None
     /\ window_start < NormalizedStart(component.dtstart)
     /\ NormalizedStart(component.dtstart) < window_end

IncludeWindowOnly(component, window_start, window_end) ==
  /\ component.dtstart # None
  /\ window_start <= NormalizedStart(component.dtstart)
  /\ NormalizedStart(component.dtstart) <= window_end

\* FILTERING LOGIC of _fetch_source_data
ShouldInclude(component, window_start, window_end) ==
  IF component.rrule THEN TRUE
  ELSE IF component.dtstart # None
       THEN /\ window_start <= NormalizedStart(component.dtstart)
            /\ NormalizedStart(component.dtstart) <= window_end
       ELSE FALSE

\* The instant of a start/end value of the remote calendar API.
GInstant(d) ==
  IF "date" \in DOMAIN d THEN d.date * TicksPerDay ELSE d.dateTime.t

\* events().list(timeMin, timeMax, singleEvents, orderBy=startTime) of the
\* remote calendar API: timeMin is an exclusive lower bound of the events'
\* end, timeMax an exclusive upper bound of their start; an item without
\* a start is passed on as it is.
GoogleList(calendar_id, time_min, time_max) ==
  SelectSeq(GCalEvents(calendar_id),
            LAMBDA e : \/ e.start = None
                       \/ GInstant(e.end) > time_min /\ GInstant(e.start) < time_max)

\* How the fetch of one source ends: "ok"; "failed", an exception the
\* adapter catches itself (for an iCal feed a RequestException or a
\* ValueError: network error, HTTP error status, rejected address,
\* unparsable content; for a remote calendar any exception); "raised", an
\* exception of another class leaving _fetch_source_data.
FetchOutcomes(key) ==
  IF key[1] = "google" THEN {"ok", "failed"} ELSE {"ok", "failed", "raised"}

\* The pages events().list answers with: PageSize items each, one empty
\* page for an empty listing; every page but the last carries a
\* nextPageToken.
Pages(listing) ==
  IF listing = << >> THEN << << >> >>
  ELSE [p \in 1..((Len(listing) + PageSize - 1) \div PageSize) |->
          SubSeq(listing, (p - 1) * PageSize + 1, Min(p * PageSize, Len(listing)))]

\* The failure of a page request as a fetch outcome: "failed" when no page
\* has arrived yet, "page2", "page3" for the request of that page.
PageNames == << "failed", "page2", "page3" >>

PageFailed(outcome) ==
  IF \E p \in DOMAIN PageNames : PageNames[p] = outcome
  THEN CHOOSE p \in DOMAIN PageNames : PageNames[p] = outcome
  ELSE 0

\* The outcomes of a source's fetch that are the failure of a request for
\* a later page of its listing.
LaterPageFailures(key, window) ==
  IF key[1] = "google"
  THEN {PageNames[p] :
          p \in 2..Min(Len(Pages(GoogleList(key[2], window.start, window.end))),
                       Len(PageNames))}
  ELSE {}

\* _fetch_all_google_events: page after page until one has no
\* nextPageToken; the name is the summary of the first page.  When the
\* request of page fail_page raises, the exception leaves the loop.
FetchAllGoogleEvents(calendar_id, time_min, time_max, fail_page) ==
  LET pages == Pages(GoogleList(calendar_id, time_min, time_max))
      got   == IF fail_page = 0 THEN Len(pages) ELSE Min(fail_page - 1, Len(pages))
  IN [events |-> Flatten(SubSeq(pages, 1, got)),
      name |-> IF got = 0 THEN calendar_id ELSE GCalSummary(calendar_id),
      raised |-> got < Len(pages)]

KeepFetchedPages(source, window, outcome) ==
  LET got == FetchAllGoogleEvents(source.url, window.start, window.end,
                                  PageFailed(outcome))
  IN [components |-> got.events,
      name |-> IF got.raised THEN source.url \o " (Failed)" ELSE got.name,
      raised |-> FALSE]

MarkerPlain(source) ==
  [components |-> << >>, name |-> source.url, raised |-> FALSE]

\* return [], f"{url} (Failed)"
FailedMarker(source) ==
  [components |-> << >>, name |-> source.url \o " (Failed)", raised |-> FALSE]

\* an exception propagating out of the worker
Raised == [components |-> << >>, name |-> "", raised |-> TRUE]

\* _fetch_google_source_data: (components, name), or the failed marker.
FetchGoogleSourceData(source, window, outcome) ==
  LET got == FetchAllGoogleEvents(source.url, window.start, window.end,
                                  PageFailed(outcome))
  IN IF got.raised
     THEN FailedMarker(source)
     ELSE [components |-> got.events, name |-> got.name, raised |-> FALSE]

\* _fetch_source_data: (components, name), the failed marker, or the
\* exception it does not catch.
FetchSourceData(source, window, outcome) ==
  IF source.type = "google"
  THEN FetchGoogleSourceData(source, window, outcome)
  ELSE IF outcome = "failed" THEN FailedMarker(source)
  ELSE IF outcome = "raised" THEN Raised
  ELSE [components |->
          SelectSeq(FeedEvents(source.url),
                    LAMBDA c : ShouldInclude(c, window.start, window.end)),
        name |-> IF FeedName(source.url) # ""
                 THEN FeedName(source.url) ELSE source.url,
        raised |-> FALSE]

RECURSIVE UniqueFrom(_, _)
UniqueFrom(sources, acc) ==
  IF sources = << >> THEN acc
  ELSE UniqueFrom(Tail(sources),
                  IF \E i \in 1..Len(acc) : SourceKey(acc[i]) = SourceKey(Head(sources))
                  THEN acc ELSE Append(acc, Head(sources)))

NoDedupSources(sources) == sources

\* step 1 of _fetch_source_events: the first source of every (type, url)
UniqueSources(sources) == UniqueFrom(sources, << >>)

\* step 2: one _fetch_source_data call per unique source; outcomes gives
\* for every key how its fetch ends.
FetchCalls(sources) ==
  [i \in 1..Len(UniqueSources(sources)) |-> SourceKey(UniqueSources(sources)[i])]

NoFailure(sources) == [key \in Range(FetchCalls(sources)) |-> "ok"]

\* results_map[key] = future.result(), or ([], "Error") when the worker
\* raised
FutureResult(res) ==
  IF res.raised THEN [components |-> << >>, name |-> "Error"]
  ELSE [components |-> res.components, name |-> res.name]

ResultsMap(sources, window, outcomes) ==
  [key \in Range(FetchCalls(sources)) \cap DOMAIN outcomes |->
     LET src == CHOOSE s \in Range(UniqueSources(sources)) : SourceKey(s) = key
     IN FutureResult(FetchSourceData(src, window, outcomes[key]))]

\* step 3: the merged list, walking the configured sources in order and
\* taking those whose key is in results_map
ItemsOf(source, result) ==
  [i \in 1..Len(result.components) |->
     [component |-> result.components[i], prefix |-> source.prefix,
      source_title |-> result.name]]

AllEventsItems(sources, window, outcomes) ==
  Flatten([i \in 1..Len(sources) |->
             IF SourceKey(sources[i]) \in DOMAIN outcomes
             THEN ItemsOf(sources[i],
                          ResultsMap(sources, window, outcomes)[SourceKey(sources[i])])
             ELSE << >>])

SourceNames(sources, window, outcomes) ==
  LET fetched == {i \in 1..Len(sources) : SourceKey(sources[i]) \in DOMAIN outcomes}
  IN [url \in {sources[i].url : i \in fetched} |->
        LET last == CHOOSE i \in fetched :
                      /\ sources[i].url = url
                      /\ \A j \in fetched : j > i => sources[j].url # url
        IN ResultsMap(sources, window, outcomes)[SourceKey(sources[last])].name]

\* component.get("UID")
GetUID(component) == IF component.google THEN component.id ELSE component.uid

\* event_uids of sync_calendar_logic
EventUids(items) ==
  LET withUid == SelectSeq(items, LAMBDA it : GetUID(it.component) # 0)
  IN [i \in 1..Len(withUid) |-> GetUID(withUid[i].component)]

\* ------------------------------------------------ destination diff resolver
\* The destination calendar: a sequence of stored events
\* [id, iCalUID, body], in creation order.

\* events().list(calendarId=destination, iCalUID=uid): the stored events
\* carrying that external identity.
DestItems(dst, uid) == SelectSeq(dst, LAMBDA e : e.iCalUID = uid)

\* list(set(known_uids)): the distinct UIDs in an order the set iteration
\* fixes (ascending or descending here).
UidOrders(known_uids) ==
  { SortAsc(Range(known_uids)), Reverse(SortAsc(Range(known_uids))) }

NumChunks(n, limit) == (n + limit - 1) \div limit

ChunksOff(uids_to_fetch, limit) ==
  [k \in 1..NumChunks(Len(uids_to_fetch), limit + 1) |->
     SubSeq(uids_to_fetch, (k - 1) * (limit + 1) + 1,
            Min(k * (limit + 1), Len(uids_to_fetch)))]

\* uids_to_fetch[i : i + batch_limit] for i in range(0, len, batch_limit)
Chunks(uids_to_fetch, limit) ==
  [k \in 1..NumChunks(Len(uids_to_fetch), limit) |->
     SubSeq(uids_to_fetch, (k - 1) * limit + 1,
            Min(k * limit, Len(uids_to_fetch)))]

CallbackLast(result_map, dst, uid, exception) ==
  IF exception THEN result_map
  ELSE LET items == DestItems(dst, uid)
       IN IF items # << >> /\ items[Len(items)].iCalUID # 0 /\ items[Len(items)].id # 0
          THEN (items[Len(items)].iCalUID :> items[Len(items)].id) @@ result_map
          ELSE result_map

\* batch_callback of _create_batch_callback, called for the request of uid
\* with the response the destination gives (or an exception).
BatchCallback(result_map, dst, uid, exception) ==
  IF exception THEN result_map
  ELSE LET items == DestItems(dst, uid)
       IN IF items # << >> /\ items[1].iCalUID # 0 /\ items[1].id # 0
          THEN (items[1].iCalUID :> items[1].id) @@ result_map
          ELSE result_map

\* batch.execute(): the callback runs once per request of the batch, each
\* adding at most the key of its own UID to result_map.
RunCallbacks(result_map, dst, uids, errs) ==
  LET one(uid) == BatchCallback(<< >>, dst, uid, uid \in errs)
      found == {uid \in Range(uids) : one(uid) # << >>}
  IN [uid \in found |-> one(uid)[uid]] @@ result_map

\* The full listing of _get_existing_events_map: pages of maxResults
\* events, each event overwriting the entry of its iCalUID.
maxResults == 2500

ListingPages(dst) == IF dst = << >> THEN 1 ELSE NumChunks(Len(dst), maxResults)

\* existing_map after the first n events of the listing were read
ListedMap(dst, n) ==
  LET keyed == {i \in 1..n : dst[i].iCalUID # 0 /\ dst[i].id # 0}
      last(uid) == CHOOSE i \in keyed :
                     /\ dst[i].iCalUID = uid
                     /\ \A j \in keyed : dst[j].iCalUID = uid => j <= i
  IN [uid \in {dst[i].iCalUID : i \in keyed} |-> dst[last(uid)].id]

\* The ways the listing can end: every page read, or the request of page
\* p failing with a GoogleAPICallError (caught: the pages before p stay
\* in the map) or with another exception (not caught).
ListingOutcomes(dst) ==
  { [page |-> 0, caught |-> TRUE] }
  \cup [page : 1..ListingPages(dst), caught : BOOLEAN]

ChunkResultDespiteFailure(dst, uids, transport_fails, errs) ==
  RunCallbacks(<< >>, dst, uids, errs)

\* _execute_batch_request / _fetch_existing_events_chunk for one chunk:
\* the map the chunk contributes; a transport failure contributes nothing.
ChunkResult(dst, uids, transport_fails, errs) ==
  IF transport_fails THEN << >>
  ELSE RunCallbacks(<< >>, dst, uids, errs)

\* The ways one batch can go wrong: nothing, the whole transport, or one
\* request (among the first MaxFailPos of the batch).
Outcomes(n) ==
  { [transport |-> FALSE, err |-> 0], [transport |-> TRUE, err |-> 0] }
  \cup { [transport |-> FALSE, err |-> j] : j \in 1..Min(n, MaxFailPos) }

\* ------------------------------------------------------ write bodies
\* _parse_event_dt
ParseEventDt(dt_prop) ==
  IF dt_prop = None THEN None
  ELSE IF dt_prop.kind = "aware" THEN [dateTime |-> IsoDT(dt_prop.v, "own")]
  ELSE IF dt_prop.kind = "naive" THEN [dateTime |-> IsoDT(dt_prop.v, "utc")]
  ELSE [date |-> dt_prop.v]

EndWithoutDuration(start_dt_prop, duration_prop) ==
  IF duration_prop = None THEN None ELSE ParseEventDt(start_dt_prop)

\* _calculate_end_time: start + duration in the representation of start
\* (date + timedelta keeps whole days only)
CalculateEndTime(start_dt_prop, duration_prop) ==
  IF start_dt_prop = None \/ duration_prop = None THEN None
  ELSE IF start_dt_prop.kind = "aware"
       THEN [dateTime |-> IsoDT(start_dt_prop.v + duration_prop.v, "own")]
  ELSE IF start_dt_prop.kind = "naive"
       THEN [dateTime |-> IsoDT(start_dt_prop.v + duration_prop.v, "utc")]
  ELSE [date |-> start_dt_prop.v + (duration_prop.v \div TicksPerDay)]

SummaryBarePrefix(summary, prefix) ==
  IF prefix # "" THEN prefix \o " " \o summary ELSE summary

\* summary = f"[{prefix}] {summary}" if prefix
PrefixedSummary(summary, prefix) ==
  IF prefix # "" THEN "[" \o prefix \o "] " \o summary ELSE summary

\* body = {k: v for k, v in body.items() if v is not None}
CleanBody(summary, description, location, start, end, uid, source_title, base_url) ==
  (IF start # None THEN "start" :> start ELSE << >>)
  @@ (IF end # None THEN "end" :> end ELSE << >>)
  @@ (IF source_title # "" /\ base_url # ""
      THEN "source" :> [title |-> source_title, url |-> base_url] ELSE << >>)
  @@ [summary |-> summary, description |-> description,
      location |-> location, iCalUID |-> uid]

\* GoogleEventAdapter.to_google_body: (body, uid)
ToGoogleBody(ge, prefix, source_title, base_url) ==
  [body |-> CleanBody(PrefixedSummary(ge.summary, prefix), ge.description,
                      ge.location, ge.start, ge.end, ge.id, source_title, base_url),
   uid |-> ge.id]

NoBody == [body |-> None, uid |-> 0]

\* _build_event_body: (body, uid), or (None, None) without UID or start
BuildEventBody(event, prefix, source_title, base_url) ==
  IF event.google THEN ToGoogleBody(event, prefix, source_title, base_url)
  ELSE IF event.uid = 0 THEN NoBody
  ELSE LET start == ParseEventDt(event.dtstart)
           end0  == ParseEventDt(event.dtend)
           end   == IF end0 = None /\ start # None
                    THEN CalculateEndTime(event.dtstart, event.duration)
                    ELSE end0
       IN IF start = None THEN NoBody
          ELSE [body |-> CleanBody(PrefixedSummary(event.summary, prefix),
                                   event.description, event.location,
                                   start, end, event.uid, source_title, base_url),
                uid |-> event.uid]

ItemBody(item) ==
  BuildEventBody(item.component, item.prefix, item.source_title, BaseUrl)

\* ------------------------------------------------------ batch upsert engine
AlwaysImport(item, idx, existing_map) ==
  [op |-> "import", request_id |-> ItemBody(item).uid, eventId |-> 0,
   body |-> ItemBody(item).body, item |-> idx]

UpdateKeepsUid(item, idx, existing_map) ==
  LET b == ItemBody(item)
      existing_event_id == IF b.uid \in DOMAIN existing_map
                           THEN existing_map[b.uid] ELSE 0
  IN [op |-> IF existing_event_id # 0 THEN "update" ELSE "import",
      request_id |-> b.uid, eventId |-> existing_event_id,
      body |-> b.body, item |-> idx]

\* The request _batch_upsert_events adds for an item that has a body:
\* update of the mapped event without iCalUID, else import.
UpsertRequest(item, idx, existing_map) ==
  LET b == ItemBody(item)
      existing_event_id == IF b.uid \in DOMAIN existing_map
                           THEN existing_map[b.uid] ELSE 0
  IN IF existing_event_id # 0
     THEN [op |-> "update", request_id |-> b.uid, eventId |-> existing_event_id,
           body |-> Drop(b.body, "iCalUID"), item |-> idx]
     ELSE [op |-> "import", request_id |-> b.uid, eventId |-> 0,
           body |-> b.body, item |-> idx]

\* The loop of _batch_upsert_events from item i on, until batch_count
\* reaches BATCH_LIMIT or the items end: the requests of the batch (one
\* per item with a body, in item order) and the index of the first item
\* not yet looked at.
NextBatchUnbounded(events_items, i, existing_map) ==
  LET order == SortAsc({k \in i..Len(events_items) :
                          ItemBody(events_items[k]).body # None})
  IN [reqs |-> [j \in 1..Len(order) |->
                  UpsertRequest(events_items[order[j]], order[j], existing_map)],
      next |-> Len(events_items) + 1]

NextBatch(events_items, i, existing_map) ==
  LET writable == {k \in i..Len(events_items) :
                     ItemBody(events_items[k]).body # None}
      taken == {k \in writable :
                  Cardinality({j \in writable : j < k}) < BATCH_LIMIT}
      order == SortAsc(taken)
  IN [reqs |-> [j \in 1..Len(order) |->
                  UpsertRequest(events_items[order[j]], order[j], existing_map)],
      next |-> IF Len(order) >= BATCH_LIMIT THEN order[Len(order)] + 1
               ELSE Len(events_items) + 1]

\* The destination's handling of the requests of a write batch that it
\* accepts, in request order: events().import_ stores the body under a
\* new id (an import of a UID it already holds is either answered with an
\* error, a failed request, or stored like any other), events().update
\* replaces the content of the addressed event.
ApplyAccepted(dst, id, reqs, accepted) ==
  LET imports == SortAsc({k \in accepted : reqs[k].op = "import"})
      grown == dst \o [n \in 1..Len(imports) |->
                         [id |-> id + n - 1,
                          iCalUID |-> reqs[imports[n]].body.iCalUID,
                          content |-> Drop(reqs[imports[n]].body, "iCalUID")]]
      born(p) == IF p <= Len(dst) THEN 0 ELSE imports[p - Len(dst)]
      updates(p) == {k \in accepted : /\ reqs[k].op = "update"
                                      /\ reqs[k].eventId = grown[p].id
                                      /\ k > born(p)}
      last(p) == CHOOSE k \in updates(p) : \A j \in updates(p) : j <= k
  IN [dst |-> [p \in 1..Len(grown) |->
                 IF updates(p) = {} THEN grown[p]
                 ELSE [grown[p] EXCEPT !.content = reqs[last(p)].body]],
      nextId |-> id + Len(imports)]

ApplyUntilError(dst, id, reqs, j, err) ==
  ApplyAccepted(dst, id, reqs, {k \in j..Len(reqs) : err = 0 \/ k < err})

\* batch.execute() of a write batch from request j on: the requests take
\* effect in order, except the one the destination answers with an error.
ApplyBatch(dst, id, reqs, j, err) ==
  ApplyAccepted(dst, id, reqs, {k \in j..Len(reqs) : k # err})

\* _batch_upsert_events from item i on with every request succeeding:
\* [dst, nextId] when the loop is through.
RECURSIVE UpsertAll(_, _, _, _, _)
UpsertAll(dst, id, events_items, i, existing_map) ==
  LET nb == NextBatch(events_items, i, existing_map)
  IN IF nb.reqs = << >> THEN [dst |-> dst, nextId |-> id]
     ELSE LET res == ApplyBatch(dst, id, nb.reqs, 1, 0)
          IN UpsertAll(res.dst, res.nextId, events_items, nb.next, existing_map)

\* What a run at Now0 in which every request succeeded has left at a
\* destination that was empty: the calendar of a configuration that has
\* been synced before.
SyncedBefore(srcs) ==
  UpsertAll(<< >>, DestIdBase + 1,
            AllEventsItems(srcs, get_sync_window_dates(Now0), NoFailure(srcs)),
            1, << >>)

\* The destination the runs start from: a new calendar or, for a
\* configuration of distinct locators, the calendar an earlier run left.
Destinations(srcs) ==
  {[dst |-> << >>, nextId |-> DestIdBase + 1]}
  \cup (IF UniqueSources(srcs) = srcs THEN {SyncedBefore(srcs)} ELSE {})

\* ------------------------------------------------------------- the state
VARIABLES
  sources,   \* the source list of the sync document
  doc,       \* the fields of the sync document a run writes
  dest,      \* the destination calendar's stored events
  nextId,    \* the id the destination gives the next imported event
  store,     \* what the run finds stored: whether the sync document exists,
             \* whether the user has a refresh token, whether the credentials
             \* report expired and whether a refresh would be accepted
  pc,        \* per run: idle, fetch, lookup, list, upsert, done (returned
             \* after all steps), returned (returned at the missing
             \* document), raised (an exception left sync_calendar_logic)
  creds,     \* per run: none, loaded, refreshed, stale (refresh rejected)
  listed,    \* per run: the pages of the full listing requested
  now,       \* per run: the instant its window was computed at
  items,     \* per run: all_events_items
  uids,      \* per run: uids_to_fetch
  parallel,  \* per run: creds was given to _get_existing_events_map
  pending,   \* per run: the lookup chunks not yet executed
  emap,      \* per run: existing_map
  pos,       \* per run: the next item of the upsert loop
  fetches,   \* per run: the _fetch_source_data calls made, by key, each
             \* with how it ended
  lookups,   \* per run: the lookup batches executed
  writes,    \* per run: the write requests issued, each with its batch,
             \* whether the destination held its UID, whether the batch
             \* raised, and whether the request succeeded
  prior,     \* per run: the runs that had returned, and the destination,
             \* when it started
  served,    \* the web requests handled, each with the answer of its
             \* handler and the run it invoked, if any
  http,      \* one call of safe_requests_get: the URL it is at, whether that
             \* is to be validated or requested, the URLs requested so far
             \* and how the call ended
  pool       \* per run: the futures of the fetch pool (submitted, completed
             \* in which order and how) and whether the lookup pool runs

vars == << sources, doc, dest, nextId, store, pc, creds, listed, now, items,
           uids, parallel, pending, emap, pos, fetches, lookups, writes, prior,
           served, http, pool >>

\* A run started by hand and one started by the scheduler, named by the
\* order they start in.
Runs == {"first", "second"}

\* pc once _batch_upsert_events is entered at item i
UpsertPc(events_items, i, existing_map) ==
  IF NextBatch(events_items, i, existing_map).reqs = << >> THEN "done" ELSE "upsert"

\* The other documents of the "syncs" collection.
OtherSyncs ==
  << [user_id |-> "other", destination_calendar_id |-> "D2",
      source_names |-> << >>, last_synced_at |-> 0] >>

\* What a run reads from the document store and from the credentials: the
\* sync document exists, the user document holds a refresh token, the
\* credentials report expired, and the token endpoint accepts a refresh;
\* and the other sync documents the store holds.
Stores ==
  [exists : BOOLEAN, refresh_token : BOOLEAN, expired : BOOLEAN,
   refresh_ok : BOOLEAN, others : {OtherSyncs}]

NormalStore ==
  [exists |-> TRUE, refresh_token |-> TRUE, expired |-> FALSE,
   refresh_ok |-> TRUE, others |-> OtherSyncs]

\* The sync document of the run as the web layer created it.
NewDoc ==
  [user_id |-> "owner", destination_calendar_id |-> "D",
   source_names |-> << >>, last_synced_at |-> 0]

SetDoc(d, source_names, timestamp) ==
  [user_id |-> "", destination_calendar_id |-> "",
   source_names |-> source_names, last_synced_at |-> timestamp]

\* sync_ref.update({"source_names": ..., "last_synced_at": ...}): the
\* other fields of the document stay.
UpdateDoc(d, source_names, timestamp) ==
  [d EXCEPT !.source_names = source_names, !.last_synced_at = timestamp]

\* sync_calendar_logic up to _get_google_service: a missing document is
\* logged and the function returns; a missing refresh token raises.
LoadWithoutToken(st) == IF ~st.exists THEN "returned" ELSE "fetch"

LoadIgnoresMissing(st) == IF ~st.refresh_token THEN "raised" ELSE "fetch"

LoadRun(st) ==
  IF ~st.exists THEN "returned"
  ELSE IF ~st.refresh_token THEN "raised"
  ELSE "fetch"

\* The refresh before the lookups: attempted only when the credentials
\* report expired, and a rejected refresh is caught and logged.
RefreshCredentials(st) ==
  IF st.expired
  THEN IF st.refresh_ok THEN "refreshed" ELSE "stale"
  ELSE "loaded"

\* The known_uids argument of _get_existing_events_map: None or a list.
NoKnownUids == [given |-> FALSE, uids |-> << >>]

GivenUids(us) == [given |-> TRUE, uids |-> us]

\* The branch _get_existing_events_map takes on its known_uids argument:
\* the full listing only for None, an immediate return for no UID.
ListWhenEmpty(known_uids) ==
  IF known_uids.given /\ known_uids.uids # << >> THEN "lookup" ELSE "list"

LookupEntry(known_uids) ==
  IF known_uids.given
  THEN IF known_uids.uids = << >> THEN "return" ELSE "lookup"
  ELSE "list"

\* pc on entering _get_existing_events_map
LookupPc(known_uids, events_items) ==
  IF LookupEntry(known_uids) = "return" THEN UpsertPc(events_items, 1, << >>)
  ELSE LookupEntry(known_uids)

\* No call of safe_requests_get under way.
NoHttp == [url |-> "", stage |-> "none", sent |-> << >>, result |-> "none"]

\* No request handled, no run invoked by a request.
NoRequest == [route |-> "none", seen |-> 0]

NoServed == [last |-> [route |-> "none", status |-> 0, body |-> "", run |-> "none"],
             by |-> [r \in Runs |-> NoRequest]]

\* A run whose pools have not been entered.
NoPool == [submitted |-> << >>, completed |-> << >>, looking |-> FALSE]

Init ==
  /\ sources \in Configs
  /\ doc = NewDoc
  /\ \E before \in Destinations(sources) :
       /\ dest = before.dst
       /\ nextId = before.nextId
  /\ store = NormalStore
  /\ creds = [r \in Runs |-> "none"]
  /\ listed = [r \in Runs |-> 0]
  /\ pc = [r \in Runs |-> "idle"]
  /\ now = [r \in Runs |-> 0]
  /\ items = [r \in Runs |-> << >>]
  /\ uids = [r \in Runs |-> << >>]
  /\ parallel = [r \in Runs |-> TRUE]
  /\ pending = [r \in Runs |-> {}]
  /\ emap = [r \in Runs |-> << >>]
  /\ pos = [r \in Runs |-> 1]
  /\ fetches = [r \in Runs |-> << >>]
  /\ lookups = [r \in Runs |-> << >>]
  /\ writes = [r \in Runs |-> << >>]
  /\ prior = [r \in Runs |-> [done |-> {}, dest |-> << >>]]
  /\ served = NoServed
  /\ http = NoHttp
  /\ pool = [r \in Runs |-> NoPool]

\* sync_calendar_logic up to the window: the document is loaded, the
\* service and credentials are built, the window is computed.  The first
\* run starts at Now0, the instant the feeds' dates are laid out around.
\* A run that finds no document returns here, one that finds no refresh
\* token raises here.
StartRun(r) ==
  /\ pc[r] = "idle"
  /\ r = "second" => pc["first"] # "idle"
  /\ pc' = [pc EXCEPT ![r] = LoadRun(store)]
  /\ IF LoadRun(store) = "fetch"
     THEN /\ creds' = [creds EXCEPT ![r] = "loaded"]
          /\ \E t \in Nows :
               /\ r = "first" => t = Now0
               /\ now' = [now EXCEPT ![r] = t]
     ELSE UNCHANGED << creds, now >>
  /\ prior' = [prior EXCEPT ![r] = [done |-> {q \in Runs : pc[q] = "done"},
                                    dest |-> dest]]
  /\ UNCHANGED << sources, doc, dest, nextId, store, listed, items, uids,
                  parallel, pending, emap, pos, fetches, lookups, writes,
                  served, http, pool >>

\* _fetch_source_events, the update of the sync document, the collection
\* of event_uids, the refresh of expired credentials and the entry of
\* _get_existing_events_map, for given ends of the fetches.  The update of
\* a document deleted since the run loaded it raises.
FetchWith(r, outcomes) ==
  LET window == get_sync_window_dates(now[r])
      its == AllEventsItems(sources, window, outcomes)
      calls == SelectSeq(FetchCalls(sources), LAMBDA key : key \in DOMAIN outcomes)
  IN /\ items' = [items EXCEPT ![r] = its]
     /\ fetches' = [fetches EXCEPT ![r] =
                      [i \in 1..Len(calls) |->
                         [key |-> calls[i],
                          outcome |-> outcomes[calls[i]],
                          failed |-> outcomes[calls[i]] # "ok"]]]
     /\ IF store.exists
        THEN /\ doc' = UpdateDoc(doc, SourceNames(sources, window, outcomes),
                                  now[r])
             /\ \E order \in UidOrders(EventUids(its)) :
                  /\ uids' = [uids EXCEPT ![r] = order]
                  /\ pending' = [pending EXCEPT ![r] =
                                   DOMAIN Chunks(order, batch_limit)]
                  /\ pc' = [pc EXCEPT ![r] =
                              LookupPc(GivenUids(EventUids(its)), its)]
             /\ creds' = [creds EXCEPT ![r] = RefreshCredentials(store)]
        ELSE /\ pc' = [pc EXCEPT ![r] = "raised"]
             /\ UNCHANGED << doc, uids, pending, creds >>
     /\ UNCHANGED << sources, dest, nextId, store, listed, now, parallel, emap,
                     pos, lookups, writes, prior, served, http, pool >>

\* The fetch stage with every way its fetches can end.
FetchSources(r) ==
  /\ pc[r] = "fetch"
  /\ \E outcomes \in {f \in [Range(FetchCalls(sources)) ->
                                {"ok", "raised"} \cup Range(PageNames)] :
                         \A key \in DOMAIN f :
                           f[key] \in FetchOutcomes(key) \cup
                             LaterPageFailures(key, get_sync_window_dates(now[r]))} :
       FetchWith(r, outcomes)

FirstSourceId(d) == sources[1].url

ReplaceByResult(existing_map, result_map) == result_map

\* existing_map.update(result_map) as each worker's result comes in
MergeResult(existing_map, result_map) == result_map @@ existing_map

\* destination_id = sync_data["destination_calendar_id"], the calendarId of
\* every lookup and write request
destination_id(d) == d.destination_calendar_id

\* One lookup batch of _get_existing_events_map: any pending chunk on the
\* parallel path, the next chunk in order on the sequential path.
LookupChunk(r) ==
  /\ pc[r] = "lookup"
  /\ \E k \in pending[r] :
       /\ IF parallel[r] THEN TRUE ELSE \A j \in pending[r] : k <= j
       /\ LET chunk == Chunks(uids[r], batch_limit)[k]
          IN \E o \in Outcomes(Len(chunk)) :
               LET errs == IF o.err = 0 THEN {} ELSE {chunk[o.err]}
                   result_map == ChunkResult(dest, chunk, o.transport, errs)
                   existing_map == MergeResult(emap[r], result_map)
               IN /\ emap' = [emap EXCEPT ![r] = existing_map]
                  /\ lookups' = [lookups EXCEPT ![r] =
                                   Append(@, [chunk |-> k, uids |-> chunk,
                                              calendarId |-> destination_id(doc),
                                              transport |-> o.transport,
                                              errs |-> errs])]
                  /\ pending' = [pending EXCEPT ![r] = @ \ {k}]
                  /\ pc' = [pc EXCEPT ![r] =
                              IF pending[r] = {k}
                              THEN UpsertPc(items[r], 1, existing_map)
                              ELSE "lookup"]
  /\ UNCHANGED << sources, doc, dest, nextId, store, creds, listed, now,
                  items, uids, parallel, pos, fetches, writes, prior,
                  served, http, pool >>

\* The paginated fallback of _get_existing_events_map, taken when
\* known_uids is None.
FullListing(r) ==
  /\ pc[r] = "list"
  /\ \E o \in ListingOutcomes(dest) :
       LET read == IF o.page = 0 THEN Len(dest)
                   ELSE Min((o.page - 1) * maxResults, Len(dest))
           existing_map == ListedMap(dest, read)
       IN /\ listed' = [listed EXCEPT ![r] =
                          IF o.page = 0 THEN ListingPages(dest) ELSE o.page]
          /\ emap' = [emap EXCEPT ![r] = IF o.caught THEN existing_map ELSE @]
          /\ pc' = [pc EXCEPT ![r] =
                      IF o.caught THEN UpsertPc(items[r], 1, existing_map)
                      ELSE "raised"]
  /\ UNCHANGED << sources, doc, dest, nextId, store, creds, now, items, uids,
                  parallel, pending, pos, fetches, lookups, writes, prior,
                  served, http, pool >>

StopOnRaise(events_items, next, existing_map, transport_fails) ==
  IF transport_fails THEN "raised"
  ELSE UpsertPc(events_items, next, existing_map)

\* The try/except around batch.execute(): the exception is logged, a new
\* batch is started and the loop goes on with the next item.
AfterExecute(events_items, next, existing_map, transport_fails) ==
  UpsertPc(events_items, next, existing_map)

BatchNo(ws) == IF ws = << >> THEN 1 ELSE ws[Len(ws)].batch + 1

\* One write batch of _batch_upsert_events: built from the next items,
\* executed, and its failure (whole or of one request) only logged.
UpsertBatch(r) ==
  /\ pc[r] = "upsert"
  /\ \E nb \in {NextBatch(items[r], pos[r], emap[r])} :
       \E o \in Outcomes(Len(nb.reqs)) :
          \E res \in {IF o.transport THEN [dst |-> dest, nextId |-> nextId]
                      ELSE ApplyBatch(dest, nextId, nb.reqs, 1, o.err)} :
             /\ dest' = res.dst
             /\ nextId' = res.nextId
             /\ writes' = [writes EXCEPT ![r] =
                             @ \o [j \in 1..Len(nb.reqs) |->
                                     [req |-> nb.reqs[j],
                                      calendarId |-> destination_id(doc),
                                      batch |-> BatchNo(writes[r]),
                                      held |-> DestItems(dest, nb.reqs[j].request_id) # << >>,
                                      raised |-> o.transport,
                                      ok |-> ~o.transport /\ j # o.err]]]
             /\ pos' = [pos EXCEPT ![r] = nb.next]
             /\ pc' = [pc EXCEPT ![r] =
                         AfterExecute(items[r], nb.next, emap[r], o.transport)]
  /\ UNCHANGED << sources, doc, store, creds, listed, now, items, uids,
                  parallel, pending, emap, fetches, lookups, prior,
                  served, http, pool >>

Next ==
  \E r \in Runs : StartRun(r) \/ FetchSources(r) \/ LookupChunk(r) \/ UpsertBatch(r)

Spec == Init /\ [][Next]_vars

\* ------------------------------------ _get_existing_events_map on its own
\* The resolver called directly with n known UIDs, with or without creds,
\* on a destination that already holds every DestEvery-th of them.
KnownUids(n) == [i \in 1..n |-> i]

StoredEvent(uid) ==
  [id |-> DestIdBase + uid, iCalUID |-> uid, content |-> [summary |-> "stored"]]

InitLookup ==
  /\ sources = << >>
  /\ doc = NewDoc
  /\ store = NormalStore
  /\ creds = [r \in Runs |-> "loaded"]
  /\ listed = [r \in Runs |-> 0]
  /\ \E n \in 0..MaxUids :
       /\ dest = [i \in 1..(n \div DestEvery) |-> StoredEvent(i * DestEvery)]
       /\ nextId = DestIdBase + n + 1
       /\ \E known_uids \in {GivenUids(KnownUids(n)), NoKnownUids} :
            \E order \in UidOrders(known_uids.uids) :
              /\ uids = [r \in Runs |-> IF r = "first" THEN order ELSE << >>]
              /\ pending = [r \in Runs |->
                              IF r = "first" THEN DOMAIN Chunks(order, batch_limit)
                              ELSE {}]
              /\ pc = [r \in Runs |->
                         IF r = "first" THEN LookupPc(known_uids, << >>)
                         ELSE "done"]
  /\ parallel \in [Runs -> BOOLEAN]
  /\ parallel["second"]
  /\ now = [r \in Runs |-> 0]
  /\ items = [r \in Runs |-> << >>]
  /\ emap = [r \in Runs |-> << >>]
  /\ pos = [r \in Runs |-> 1]
  /\ fetches = [r \in Runs |-> << >>]
  /\ lookups = [r \in Runs |-> << >>]
  /\ writes = [r \in Runs |-> << >>]
  /\ prior = [r \in Runs |-> [done |-> {}, dest |-> << >>]]
  /\ served = NoServed
  /\ http = NoHttp
  /\ pool = [r \in Runs |-> NoPool]

NextLookup == \E r \in Runs : LookupChunk(r) \/ FullListing(r)

SpecLookup == InitLookup /\ [][NextLookup]_vars

\* ----------------------------------- runs on any document and credentials
\* The runs of the configuration of feed R where the sync document may be
\* missing, the user may have no refresh token, and the credentials may
\* report expired with the refresh accepted or rejected.
InitErr ==
  /\ sources = << Source("ical", "R", "") >>
  /\ doc = NewDoc
  /\ \E before \in Destinations(sources) :
       /\ dest = before.dst
       /\ nextId = before.nextId
  /\ store \in Stores
  /\ creds = [r \in Runs |-> "none"]
  /\ listed = [r \in Runs |-> 0]
  /\ pc = [r \in Runs |-> "idle"]
  /\ now = [r \in Runs |-> 0]
  /\ items = [r \in Runs |-> << >>]
  /\ uids = [r \in Runs |-> << >>]
  /\ parallel = [r \in Runs |-> TRUE]
  /\ pending = [r \in Runs |-> {}]
  /\ emap = [r \in Runs |-> << >>]
  /\ pos = [r \in Runs |-> 1]
  /\ fetches = [r \in Runs |-> << >>]
  /\ lookups = [r \in Runs |-> << >>]
  /\ writes = [r \in Runs |-> << >>]
  /\ prior = [r \in Runs |-> [done |-> {}, dest |-> << >>]]
  /\ served = NoServed
  /\ http = NoHttp
  /\ pool = [r \in Runs |-> NoPool]

SpecErr == InitErr /\ [][Next]_vars

AlwaysSuccessful(r) == [status |-> 200, body |-> "Sync successful"]

\* sync_one_user once the run it started has ended: 200 when
\* sync_calendar_logic returned, 500 when it raised.
SyncOneResponse(r) ==
  IF pc[r] = "raised"
  THEN [status |-> 500, body |-> "Worker failed. Please check logs for details."]
  ELSE [status |-> 200, body |-> "Sync successful"]

\* ---------------------------------------- _batch_upsert_events on its own
\* The upsert engine called directly with m items, every SkipEvery-th of
\* them without a UID (no body), and an existing_map that maps every
\* DestEvery-th UID to the event the destination holds for it.
UpsertItem(i) ==
  [component |-> VEvent(IF i % SkipEvery = 0 THEN 0 ELSE i, "e", DateV(100),
                        None, None, FALSE),
   prefix |-> "", source_title |-> ""]

InitUpsert ==
  /\ sources = << >>
  /\ doc = NewDoc
  /\ store = NormalStore
  /\ creds = [r \in Runs |-> "loaded"]
  /\ listed = [r \in Runs |-> 0]
  /\ \E m \in 0..MaxItems :
       LET events_items == [i \in 1..m |-> UpsertItem(i)]
           existing_map == [uid \in {k * DestEvery : k \in 1..(m \div DestEvery)} |->
                              StoredEvent(uid).id]
       IN /\ dest = [k \in 1..(m \div DestEvery) |-> StoredEvent(k * DestEvery)]
          /\ nextId = DestIdBase + m + 1
          /\ items = [r \in Runs |-> IF r = "first" THEN events_items ELSE << >>]
          /\ emap = [r \in Runs |-> IF r = "first" THEN existing_map ELSE << >>]
          /\ pc = [r \in Runs |->
                     IF r = "first" THEN UpsertPc(events_items, 1, existing_map)
                     ELSE "done"]
  /\ parallel = [r \in Runs |-> TRUE]
  /\ now = [r \in Runs |-> 0]
  /\ uids = [r \in Runs |-> << >>]
  /\ pending = [r \in Runs |-> {}]
  /\ pos = [r \in Runs |-> 1]
  /\ fetches = [r \in Runs |-> << >>]
  /\ lookups = [r \in Runs |-> << >>]
  /\ writes = [r \in Runs |-> << >>]
  /\ prior = [r \in Runs |-> [done |-> {}, dest |-> << >>]]
  /\ served = NoServed
  /\ http = NoHttp
  /\ pool = [r \in Runs |-> NoPool]

NextUpsert == \E r \in Runs : UpsertBatch(r)

SpecUpsert == InitUpsert /\ [][NextUpsert]_vars

\* ---------------------------------------------------------------- claims
Started(r) == pc[r] \notin {"idle", "fetch"}

Window(r) == get_sync_window_dates(now[r])

InWindow(t, w) == w.start <= t /\ t <= w.end

Component(r, i) == items[r][i].component

WritesOfItem(r, i) == {j \in 1..Len(writes[r]) : writes[r][j].req.item = i}

\* C5: in one call of _fetch_source_events the fetch adapter is invoked
\* exactly once for every (type, locator) key that occurs among the
\* configured sources, however many sources share the key, and for no
\* other key.
C5_FetchOncePerKey ==
  \A r \in Runs :
    Started(r) =>
      /\ \A i \in 1..Len(sources) :
           Cardinality({j \in 1..Len(fetches[r]) :
                          fetches[r][j].key = SourceKey(sources[i])}) = 1
      /\ \A j \in 1..Len(fetches[r]) :
           \E i \in 1..Len(sources) : fetches[r][j].key = SourceKey(sources[i])

\* a run has fetched a configuration in which two sources share their key
C5_Witness ==
  \E r \in Runs :
    /\ Started(r)
    /\ \E i, j \in 1..Len(sources) : i < j /\ SourceKey(sources[i]) = SourceKey(sources[j])

\* the write requests of r are for candidates, under their UID
WritesForCandidates(r) ==
  \A j \in 1..Len(writes[r]) :
    /\ writes[r][j].req.item \in 1..Len(items[r])
    /\ writes[r][j].req.request_id = GetUID(Component(r, writes[r][j].req.item))

\* the iCal events without recurrence rule that start outside the window
\* of r are no candidates of r
ICalOutsideExcluded(r) ==
  \A url \in ICalLocators :
    \A k \in 1..Len(FeedEvents(url)) :
      LET e == FeedEvents(url)[k]
      IN (/\ ~e.rrule
          /\ e.dtstart # None
          /\ ~InWindow(NormalizedStart(e.dtstart), Window(r)))
         => \A i \in 1..Len(items[r]) : Component(r, i) # e

C7_RecurringIncluded ==
  \A r \in Runs :
    Started(r) =>
      /\ \A f \in 1..Len(fetches[r]) :
           (fetches[r][f].key[1] = "ical" /\ ~fetches[r][f].failed) =>
             \A k \in 1..Len(FeedEvents(fetches[r][f].key[2])) :
               LET e == FeedEvents(fetches[r][f].key[2])[k]
               IN e.rrule => \E i \in 1..Len(items[r]) : Component(r, i) = e
      /\ pc[r] = "done" =>
           \A i \in 1..Len(items[r]) :
             LET c == Component(r, i)
             IN (~c.google /\ c.rrule /\ c.uid # 0 /\ c.dtstart # None)
                => Cardinality(WritesOfItem(r, i)) = 1
      /\ (/\ pc[r] = "done"
          /\ sources = << Source("ical", "R", "") >>
          /\ ~fetches[r][1].failed)
           => Len(writes[r]) = 1

\* a finished run has written the out-of-window weekly event of feed R once
C7_Witness ==
  \E r \in Runs :
    /\ pc[r] = "done"
    /\ sources = << Source("ical", "R", "") >>
    /\ Len(writes[r]) = 1
    /\ ~InWindow(NormalizedStart(Component(r, writes[r][1].req.item).dtstart), Window(r))

\* C8: every write request of a run is for one item that has a body; if
\* the item's UID is a key of the run's destination index the request is
\* an update addressed to the mapped event id whose body has no iCalUID,
\* otherwise it is an import whose body has iCalUID equal to the UID; no
\* item gets two requests, and every item with a body that the upsert
\* loop has passed got one.
C8_CreateOrUpdate ==
  \A r \in Runs :
    /\ \A j \in 1..Len(writes[r]) :
         LET req == writes[r][j].req
             uid == ItemBody(items[r][req.item]).uid
         IN /\ ItemBody(items[r][req.item]).body # None
            /\ req.request_id = uid
            /\ IF uid \in DOMAIN emap[r]
               THEN /\ req.op = "update"
                    /\ req.eventId = emap[r][uid]
                    /\ "iCalUID" \notin DOMAIN req.body
               ELSE /\ req.op = "import"
                    /\ "iCalUID" \in DOMAIN req.body
                    /\ req.body.iCalUID = uid
    /\ \A i \in 1..Len(items[r]) :
         /\ Cardinality(WritesOfItem(r, i)) <= 1
         /\ (pc[r] \in {"upsert", "done"} /\ i < pos[r] /\ ItemBody(items[r][i]).body # None)
              => Cardinality(WritesOfItem(r, i)) = 1

\* one run has issued an update for an indexed UID and an import for a
\* UID that its index lacks
C8_Witness ==
  \E r \in Runs :
    \E j, k \in 1..Len(writes[r]) :
      /\ writes[r][j].req.op = "update"
      /\ writes[r][j].req.request_id \in DOMAIN emap[r]
      /\ writes[r][k].req.op = "import"
      /\ writes[r][k].req.request_id \notin DOMAIN emap[r]

\* C9: the summary of every write request, create or update, iCal or
\* remote calendar, is "[prefix] summary" for the prefix of a configured
\* source that serves the event when that prefix is not empty, and the
\* source's summary unchanged when it is empty.
ServedBy(source, component) ==
  IF source.type = "google"
  THEN component \in Range(GCalEvents(source.url))
  ELSE component \in Range(FeedEvents(source.url))

C9_Prefixing ==
  \A r \in Runs :
    \A j \in 1..Len(writes[r]) :
      LET req == writes[r][j].req
          c == Component(r, req.item)
      IN \E i \in 1..Len(sources) :
           /\ ServedBy(sources[i], c)
           /\ items[r][req.item].prefix = sources[i].prefix
           /\ req.body.summary =
                IF sources[i].prefix = "" THEN c.summary
                ELSE "[" \o sources[i].prefix \o "] " \o c.summary

\* two sources with prefixes P1 and P2: one run has written an event of
\* each, an import and an update among them
C9_Witness ==
  \E r \in Runs :
    \E j, k \in 1..Len(writes[r]) :
      /\ writes[r][j].req.body.summary = "[P1] a"
      /\ writes[r][k].req.body.summary = "[P2] weekly"
      /\ writes[r][j].req.op = "update"
      /\ writes[r][k].req.op = "import"

CeilDiv(n, d) == IF n % d = 0 THEN n \div d ELSE (n \div d) + 1

LookedUp(r) == pc[r] \in {"upsert", "done"}

\* C10: _get_existing_events_map issues, for n distinct known UIDs,
\* exactly ceil(n / 50) lookup batches by the time it returns, each of 1 to
\* 50 UIDs, every UID in exactly one batch, none for n = 0 and 3 for
\* n = 120, with creds (parallel) and without (sequential).
C10_LookupBatching ==
  \A r \in Runs :
    LET batched == Flatten([j \in 1..Len(lookups[r]) |-> lookups[r][j].uids])
    IN /\ \A j \in 1..Len(lookups[r]) :
            /\ Len(lookups[r][j].uids) >= 1
            /\ Len(lookups[r][j].uids) <= 50
       /\ Cardinality(Range(uids[r])) = Len(uids[r])
       /\ Cardinality(Range(batched)) = Len(batched)
       /\ Range(batched) \subseteq Range(uids[r])
       /\ LookedUp(r) =>
            /\ Len(lookups[r]) = CeilDiv(Len(uids[r]), 50)
            /\ Len(uids[r]) = 0 => lookups[r] = << >>
            /\ Len(uids[r]) = 120 => Len(lookups[r]) = 3
            /\ Range(batched) = Range(uids[r])

\* the sequential path has returned after 3 batches for 120 UIDs
C10_Witness ==
  \E r \in Runs :
    /\ LookedUp(r)
    /\ ~parallel[r]
    /\ Len(uids[r]) = 120
    /\ Len(lookups[r]) = 3

\* ------------------------------------------------ claims about repeated runs
\* r started after q had returned
After(r, q) == pc[r] # "idle" /\ q \in prior[r].done

FetchesOk(r) == \A j \in 1..Len(fetches[r]) : ~fetches[r][j].failed

LookupsOk(r) ==
  \A j \in 1..Len(lookups[r]) : ~lookups[r][j].transport /\ lookups[r][j].errs = {}

WritesOk(r) == \A j \in 1..Len(writes[r]) : writes[r][j].ok

\* r has returned and every request it made succeeded
AllOk(r) == pc[r] = "done" /\ FetchesOk(r) /\ LookupsOk(r) /\ WritesOk(r)

WasCandidate(q, item) == \E i \in 1..Len(items[q]) : items[q][i] = item

Identity(dst) == [k \in 1..Len(dst) |-> [id |-> dst[k].id, iCalUID |-> dst[k].iCalUID]]

CandidatesWithUid(r, uid) ==
  {i \in 1..Len(items[r]) : ItemBody(items[r][i]).uid = uid}

Answered(r, uid) ==
  \E j \in 1..Len(lookups[r]) :
    /\ uid \in Range(lookups[r][j].uids)
    /\ ~lookups[r][j].transport
    /\ uid \notin lookups[r][j].errs

AcceptedCreates(r, uid) ==
  {j \in 1..Len(writes[r]) :
     /\ writes[r][j].ok
     /\ writes[r][j].req.op = "import"
     /\ writes[r][j].req.request_id = uid}

\* C3 as claimed: no create request is issued for a UID of which the
\* destination holds an event, no UID has two create requests accepted,
\* and the destination never holds two events with the same external
\* identity.
C3_NoDuplicates ==
  /\ \A r \in Runs :
       \A j \in 1..Len(writes[r]) :
         writes[r][j].req.op = "import" => ~writes[r][j].held
  /\ \A uid \in {dest[k].iCalUID : k \in 1..Len(dest)} :
       Cardinality(AcceptedCreates("first", uid))
         + Cardinality(AcceptedCreates("second", uid)) <= 1
  /\ \A j, k \in 1..Len(dest) : j # k => dest[j].iCalUID # dest[k].iCalUID

\* C4 as claimed: when a run has left something unreconciled and a later
\* run in which every request succeeds has returned, every candidate of
\* the later run that has a body is at the destination exactly once, with
\* the body built from it.
C4_EventuallyConsistent ==
  (/\ After("second", "first")
   /\ ~(LookupsOk("first") /\ WritesOk("first"))
   /\ AllOk("second")) =>
    \A i \in 1..Len(items["second"]) :
      LET b == ItemBody(items["second"][i])
      IN b.body # None =>
           /\ Len(DestItems(dest, b.uid)) = 1
           /\ DestItems(dest, b.uid)[1].content = Drop(b.body, "iCalUID")

\* C11: during a run the full listing of the destination is never
\* executed (the run is never in the paginated fallback and no page of it
\* is requested), and every lookup batch queries only UIDs of the run's
\* candidates, also when there is no candidate or none has a UID.
C11_NoFullListing ==
  \A r \in Runs :
    /\ pc[r] # "list"
    /\ listed[r] = 0
    /\ \A i \in 1..Len(lookups[r]) :
         Range(lookups[r][i].uids) \subseteq Range(EventUids(items[r]))
    /\ (LookedUp(r) /\ EventUids(items[r]) = << >>) => lookups[r] = << >>

\* A first run without candidates and a second whose only candidate has
\* no UID both went through the lookup step.
C11_Witness ==
  /\ pc["first"] = "done" /\ items["first"] = << >>
  /\ pc["second"] = "done" /\ items["second"] # << >>
  /\ EventUids(items["second"]) = << >>
  /\ \A r \in Runs : lookups[r] = << >> /\ listed[r] = 0

\* The items of a run that get a write body, the batch numbers of its
\* write log and the entries of one batch.
HasBody(r, i) == ItemBody(items[r][i]).body # None

Writable(r) == {i \in 1..Len(items[r]) : HasBody(r, i)}

BatchesOf(r) == {writes[r][j].batch : j \in 1..Len(writes[r])}

EntriesOf(r, b) == {j \in 1..Len(writes[r]) : writes[r][j].batch = b}

EntriesOfItem(r, i) == {j \in 1..Len(writes[r]) : writes[r][j].req.item = i}

\* C12: the write batches are executed one after the other in the order
\* of the candidate list, each holds between 1 and 50 requests, every
\* candidate with a write body the loop has passed is in exactly one
\* executed batch (one without a body in none), and when the engine is
\* through, m writable candidates have made ceil(m / 50) executions.
C12_UpsertBatching ==
  \A r \in Runs :
    /\ writes[r] # << >> => writes[r][1].batch = 1
    /\ \A j \in 1..(Len(writes[r]) - 1) :
         /\ writes[r][j].req.item < writes[r][j + 1].req.item
         /\ writes[r][j + 1].batch \in {writes[r][j].batch, writes[r][j].batch + 1}
    /\ \A b \in BatchesOf(r) : Cardinality(EntriesOf(r, b)) \in 1..BATCH_LIMIT
    /\ \A i \in 1..Len(items[r]) :
         Cardinality(EntriesOfItem(r, i)) =
           IF HasBody(r, i) /\ i < pos[r] THEN 1 ELSE 0
    /\ pc[r] = "done" =>
         /\ \A i \in 1..Len(items[r]) : HasBody(r, i) => i < pos[r]
         /\ Cardinality(BatchesOf(r)) = CeilDiv(Cardinality(Writable(r)), BATCH_LIMIT)

\* The engine is through more than 100 writable candidates, some items
\* without a body among them: three executions, the last one not full.
C12_Witness ==
  /\ pc["first"] = "done"
  /\ Cardinality(Writable("first")) > 2 * BATCH_LIMIT
  /\ Cardinality(Writable("first")) < Len(items["first"])
  /\ BatchesOf("first") = {1, 2, 3}
  /\ Cardinality(EntriesOf("first", 3)) < BATCH_LIMIT

\* What an accepted write request leaves at the destination, and what the
\* destination shows of a request that was not accepted.
Effected(req) ==
  IF req.op = "import"
  THEN \E k \in 1..Len(dest) : /\ dest[k].iCalUID = req.request_id
                               /\ dest[k].content = Drop(req.body, "iCalUID")
  ELSE \E k \in 1..Len(dest) : /\ dest[k].id = req.eventId
                               /\ dest[k].content = req.body

Untouched(req) ==
  IF req.op = "import" THEN DestItems(dest, req.request_id) = << >>
  ELSE \E k \in 1..Len(dest) :
         /\ dest[k].id = req.eventId
         /\ dest[k].content = StoredEvent(dest[k].iCalUID).content

\* C13: when the execution of write batch k raises, the engine does not
\* raise; the requests of batch k are issued once and leave nothing at the
\* destination, no later batch holds an item of batch k, and when the
\* engine has returned every writable item after batch k has been issued
\* in a later batch.
C13_BatchFailureSkipped ==
  \A r \in Runs :
    \A j \in 1..Len(writes[r]) :
      writes[r][j].raised =>
        /\ pc[r] \in {"upsert", "done"}
        /\ EntriesOfItem(r, writes[r][j].req.item) = {j}
        /\ Untouched(writes[r][j].req)
        /\ \A q \in EntriesOf(r, writes[r][j].batch) : writes[r][q].raised
        /\ \A q \in (j + 1)..Len(writes[r]) :
             writes[r][q].batch > writes[r][j].batch
               => writes[r][q].req.item > writes[r][j].req.item
        /\ pc[r] = "done" =>
             \A i \in (writes[r][j].req.item + 1)..Len(items[r]) :
               HasBody(r, i) => EntriesOfItem(r, i) # {}

\* The first batch raised, the second and the third were executed and
\* their requests accepted, and the engine has returned.
C13_Witness ==
  /\ pc["first"] = "done"
  /\ BatchesOf("first") = {1, 2, 3}
  /\ \A j \in EntriesOf("first", 1) : writes["first"][j].raised
  /\ \A j \in EntriesOf("first", 2) \cup EntriesOf("first", 3) :
       writes["first"][j].ok /\ Effected(writes["first"][j].req)

\* C14: when the destination answers one request of a write batch with
\* an error, the engine does not raise, every other request of that batch
\* has its effect at the destination, the failed request has none and is
\* issued only once, and when the engine has returned every later
\* writable item has been issued.
C14_ItemFailureSkipped ==
  \A r \in Runs :
    \A j \in 1..Len(writes[r]) :
      (~writes[r][j].ok /\ ~writes[r][j].raised) =>
        /\ pc[r] \in {"upsert", "done"}
        /\ \A q \in EntriesOf(r, writes[r][j].batch) \ {j} :
             writes[r][q].ok /\ Effected(writes[r][q].req)
        /\ Untouched(writes[r][j].req)
        /\ EntriesOfItem(r, writes[r][j].req.item) = {j}
        /\ pc[r] = "done" =>
             \A i \in (writes[r][j].req.item + 1)..Len(items[r]) :
               HasBody(r, i) => EntriesOfItem(r, i) # {}

\* The first request of a full first batch was answered with an error,
\* requests after it in the batch were accepted, a later batch was
\* executed, and the engine has returned.
C14_Witness ==
  /\ pc["first"] = "done"
  /\ Len(writes["first"]) > BATCH_LIMIT
  /\ ~writes["first"][1].ok /\ ~writes["first"][1].raised
  /\ writes["first"][2].ok /\ Effected(writes["first"][2].req)
  /\ writes["first"][BATCH_LIMIT + 1].batch = 2
  /\ writes["first"][BATCH_LIMIT + 1].ok

\* the outcome of the fetch run r made for the key of source
OutcomeOf(r, source) ==
  LET f == CHOOSE j \in 1..Len(fetches[r]) : fetches[r][j].key = SourceKey(source)
  IN fetches[r][f].outcome

\* the candidates of r that come from source, as items with its prefix
ItemsFrom(r, source) ==
  {i \in 1..Len(items[r]) :
     ServedBy(source, Component(r, i)) /\ items[r][i].prefix = source.prefix}

\* What holds of a run that has fetched while the fetch of a source
\* failed: the run has not raised, no candidate, lookup or write of it is
\* for an event of that source, every event a source fetched without
\* failure serves inside the window is a candidate, and once the run has
\* returned each of these with a write body has been issued.
FailedSourceSkipped(r) ==
  \A k \in 1..Len(sources) :
    (Started(r) /\ OutcomeOf(r, sources[k]) = "failed") =>
      /\ pc[r] \in {"lookup", "upsert", "done"}
      /\ \A i \in 1..Len(items[r]) : ~ServedBy(sources[k], Component(r, i))
      /\ \A j \in 1..Len(lookups[r]) :
           Range(lookups[r][j].uids) \subseteq Range(EventUids(items[r]))
      /\ WritesForCandidates(r)
      /\ \A q \in 1..Len(sources) :
           OutcomeOf(r, sources[q]) = "ok" =>
             /\ \A c \in Range(FetchSourceData(sources[q], Window(r), "ok").components) :
                  \E i \in ItemsFrom(r, sources[q]) : Component(r, i) = c
             /\ pc[r] = "done" =>
                  \A i \in ItemsFrom(r, sources[q]) :
                    HasBody(r, i) => WritesOfItem(r, i) # {}

\* the step in which run r fetches its sources and updates the document
FetchStep(r) == pc[r] = "fetch" /\ pc'[r] # "fetch"

C15_Step ==
  \A r \in Runs :
    /\ FailedSourceSkipped(r)'
    /\ FetchStep(r) =>
         \A k \in 1..Len(sources) :
           OutcomeOf(r, sources[k])' = "failed" =>
             doc'.source_names[sources[k].url] = sources[k].url \o " (Failed)"

\* C15: the failed fetch of one source does not fail the run: the run
\* goes on and returns, no event of the failed source is looked up or
\* written, the events of the other sources are written, and the
\* source_names the run stores for the failed source is its locator
\* followed by " (Failed)".
C15_SourceFailureNotFatal == [][C15_Step]_vars

\* A run has returned after the fetch of feed A failed and that of feed B
\* did not: the event of B was written and accepted, and the stored name
\* of A is the failed marker.
C15_Witness ==
  \E r \in Runs :
    /\ pc[r] = "done"
    /\ Len(sources) = 2
    /\ OutcomeOf(r, sources[1]) = "failed"
    /\ OutcomeOf(r, sources[2]) = "ok"
    /\ doc.source_names[sources[1].url] = sources[1].url \o " (Failed)"
    /\ \E j \in 1..Len(writes[r]) :
         /\ writes[r][j].ok
         /\ ServedBy(sources[2], Component(r, writes[r][j].req.item))

C16_Step ==
  \A r \in Runs :
    FetchStep(r) =>
      \A k \in 1..Len(sources) :
        OutcomeOf(r, sources[k])' # "ok" =>
          /\ \A i \in 1..Len(items'[r]) : ~ServedBy(sources[k], items'[r][i].component)
          /\ doc'.source_names[sources[k].url] = sources[k].url \o " (Failed)"

\* C16: however the fetch of a source fails, by an exception the adapter
\* catches or by any other exception raised in the fetch worker, the source
\* contributes no event and the name recorded for it is its locator
\* followed by " (Failed)".
C16_FailureAnnotation == [][C16_Step]_vars

\* r has left sync_calendar_logic, by return or by exception
Ended(r) == pc[r] \in {"done", "returned", "raised"}

\* r made no request to the destination and did not write the document
NoEffect(r) ==
  /\ fetches[r] = << >>
  /\ lookups[r] = << >>
  /\ listed[r] = 0
  /\ writes[r] = << >>
  /\ dest = prior[r].dest
  /\ doc = NewDoc

\* C17: when the sync document exists and the user has no refresh token,
\* a started run has raised, and it has fetched no source, has not updated
\* source_names or last_synced_at, and has sent no lookup and no write.
C17_MissingTokenFatal ==
  \A r \in Runs :
    (pc[r] # "idle" /\ store.exists /\ ~store.refresh_token) =>
      pc[r] = "raised" /\ NoEffect(r)

\* both runs have raised for want of a refresh token
C17_Witness ==
  /\ store.exists /\ ~store.refresh_token
  /\ \A r \in Runs : pc[r] = "raised" /\ creds[r] = "none"

\* C18: when the credentials are expired and the refresh is rejected, the
\* run raises to its caller and has sent no lookup and no write.
C18_RejectedRefreshFatal ==
  \A r \in Runs :
    creds[r] = "stale" =>
      pc[r] = "raised" /\ lookups[r] = << >> /\ writes[r] = << >>

\* C19: when the sync document does not exist a started run has returned
\* at once: no credentials were loaded, no source fetched, the document
\* store not written, no request sent to the destination.
C19_MissingConfigNoEffect ==
  \A r \in Runs :
    (pc[r] # "idle" /\ ~store.exists) =>
      pc[r] = "returned" /\ creds[r] = "none" /\ NoEffect(r)

\* both runs have returned at the missing document
C19_Witness ==
  /\ ~store.exists
  /\ \A r \in Runs : pc[r] = "returned" /\ creds[r] = "none"

\* C20: a run for a sync document that does not exist is answered as a
\* failure: the run raises, and /tasks/sync_one does not answer 200
\* "Sync successful".
C20_MissingConfigReported ==
  \A r \in Runs :
    (Ended(r) /\ ~store.exists) =>
      /\ pc[r] = "raised"
      /\ SyncOneResponse(r).status # 200
      /\ SyncOneResponse(r).body # "Sync successful"

\* a step that writes the sync document (sync_ref.update)
DocUpdated == doc' # doc

C21_Step ==
  DocUpdated =>
    \E r \in Runs :
      /\ pc[r] # pc'[r]
      /\ pc'[r] = "done"
      /\ pending'[r] = {}
      /\ fetches'[r] # << >>
      /\ \A i \in 1..Len(items'[r]) :
           ItemBody(items'[r][i]).body # None => WritesOfItem(r, i)' # {}

\* C21: the update of source_names and last_synced_at is made in the step
\* in which its run finishes: after the fetches, after every lookup batch
\* and after every write batch of the run, so that a run with lookups or
\* writes still to do has not stamped last_synced_at.
C21_UpdateAfterAllWork == [][C21_Step]_vars

\* the first configured source with the key of source
FirstOfKey(source) ==
  CHOOSE s \in Range(UniqueSources(sources)) : SourceKey(s) = SourceKey(source)

\* C22: when a (type, locator) key occurs more than once among the
\* configured sources, every candidate of that key carries the prefix of
\* the key's first occurrence, and each event of the key is a candidate
\* once.
C22_DuplicateLocators ==
  \A r \in Runs :
    \A k \in 1..Len(sources) :
      \A i \in 1..Len(items[r]) :
        ServedBy(sources[k], Component(r, i)) =>
          /\ items[r][i].prefix = FirstOfKey(sources[k]).prefix
          /\ \A j \in 1..Len(items[r]) : Component(r, j) = Component(r, i) => j = i

\* The calendar clients a run has certainly built: the one of
\* _get_google_service in sync_calendar_logic, one more by the
\* _get_google_service call of every remote-calendar fetch that succeeded,
\* and one more by the build call of every lookup chunk on the parallel
\* path whose batch was executed.
ClientBuilds(r) ==
  (IF creds[r] = "none" THEN 0 ELSE 1)
  + Cardinality({j \in 1..Len(fetches[r]) :
                   fetches[r][j].key[1] = "google" /\ fetches[r][j].outcome = "ok"})
  + (IF parallel[r]
     THEN Cardinality({j \in 1..Len(lookups[r]) : ~lookups[r][j].transport})
     ELSE 0)

\* C23: a run that has loaded its credentials has built the calendar
\* client exactly once, whatever remote-calendar fetches, lookup batches
\* and write batches it has made since.
C23_ClientBuiltOnce ==
  \A r \in Runs : creds[r] # "none" => ClientBuilds(r) = 1

\* ------------------------------------------------------------ the routes
\* The sync document's user_id, and what session.get("user") can be: no
\* session user (""), the owner, or somebody else.
Owner == "owner"

Users == {"", Owner, "other"}

Request(route, method, user, csrf, auth, payload, destination) ==
  [route |-> route, method |-> method, user |-> user, csrf |-> csrf,
   auth |-> auth, payload |-> payload, destination |-> destination]

\* POST /sync/<sync_id> and POST /delete_sync/<sync_id>: a session user or
\* none, a valid CSRF token or not.
PostRequests(route) ==
  {Request(route, "POST", u, c, FALSE, "none", FALSE) : u \in Users, c \in BOOLEAN}

\* GET and POST /edit_sync/<sync_id>; the form names a destination or not.
EditRequests ==
  {Request("edit_sync", "GET", u, FALSE, FALSE, "none", FALSE) : u \in Users}
  \cup {Request("edit_sync", "POST", u, cd[1], FALSE, "none", cd[2]) :
          u \in Users, cd \in BOOLEAN \X BOOLEAN}

\* POST /tasks/sync_one: verify_task_auth passes or raises ValueError, the
\* JSON payload is empty, lacks sync_id, or carries it.
TaskRequests ==
  {Request("sync_one", "POST", "", FALSE, a, p, FALSE) :
     a \in BOOLEAN, p \in {"none", "no_id", "id"}}

\* What a handler does before it would call the engine: answer, or go on
\* to the call.
Answer(status, body) == [status |-> status, body |-> body, call |-> FALSE]

CallEngine == [status |-> 0, body |-> "", call |-> TRUE]

run_sync(req, st) ==
  IF req.user = "" THEN Answer(302, "auth.login")
  ELSE IF ~req.csrf THEN Answer(403, "Invalid CSRF token")
  ELSE IF ~st.exists THEN Answer(404, "Sync not found")
  ELSE IF Owner # req.user THEN Answer(403, "Unauthorized")
  ELSE CallEngine

\* delete_sync up to sync_ref.delete()
delete_sync(req, st) ==
  IF req.user = "" THEN Answer(302, "auth.login")
  ELSE IF ~req.csrf THEN Answer(403, "Invalid CSRF token")
  ELSE IF ~st.exists THEN Answer(404, "Sync not found")
  ELSE IF Owner # req.user THEN Answer(403, "Unauthorized")
  ELSE CallEngine

\* edit_sync and _handle_edit_sync_post up to sync_ref.update()
edit_sync(req, st) ==
  IF req.user = "" THEN Answer(302, "auth.login")
  ELSE IF ~st.exists THEN Answer(404, "Sync not found")
  ELSE IF Owner # req.user THEN Answer(403, "Unauthorized")
  ELSE IF req.method = "GET" THEN Answer(200, "edit_sync.html")
  ELSE IF ~req.csrf THEN Answer(403, "Invalid CSRF token")
  ELSE IF ~req.destination THEN Answer(400, "Destination Calendar ID is required")
  ELSE CallEngine

\* sync_one_user up to the call of sync_calendar_logic
sync_one_user(req) ==
  IF ~req.auth THEN Answer(403, "Unauthorized")
  ELSE IF req.payload # "id" THEN Answer(400, "Invalid payload")
  ELSE CallEngine

\* resolve_source_names for iCal sources: the feed's X-WR-CALNAME, or the
\* URL when the feed has none or could not be read.
resolve_source_names(srcs, fetched) ==
  [url \in {srcs[i].url : i \in 1..Len(srcs)} |->
     IF fetched /\ FeedName(url) # "" THEN FeedName(url) ELSE url]

\* The source lists an edit form submits.
EditForms == { << Source("ical", "O", "") >>, << Source("ical", "O", "ED") >> }

\* The run a handler's call of sync_calendar_logic becomes.
FreeRun ==
  IF served.by["first"] = NoRequest THEN "first"
  ELSE IF served.by["second"] = NoRequest THEN "second"
  ELSE "none"

\* served after req was handled: the last answer (status 0 while the
\* handler is in the engine), and per run the route that invoked it with
\* the last_synced_at its handler read
Serve(req, ans, run, seen) ==
  [last |-> [route |-> req.route, status |-> ans.status, body |-> ans.body,
             run |-> run],
   by |-> IF run = "none" THEN served.by
          ELSE [served.by EXCEPT ![run] = [route |-> req.route, seen |-> seen]]]

engine_but_http ==
  << dest, nextId, pc, creds, listed, now, items, uids, parallel, pending,
     emap, pos, fetches, lookups, writes, prior, pool >>

engine == << engine_but_http, http >>

\* run_sync: the checks, then the call of sync_calendar_logic; the
\* handler has read the sync document, last_synced_at included.
RunSync(req) ==
  /\ req \in PostRequests("run_sync")
  /\ IF run_sync(req, store).call
     THEN /\ FreeRun # "none"
          /\ served' = Serve(req, CallEngine, FreeRun, doc.last_synced_at)
     ELSE served' = Serve(req, run_sync(req, store), "none", 0)
  /\ UNCHANGED << sources, doc, store, engine >>

\* delete_sync: the checks, then sync_ref.delete(), which may fail.
DeleteSync(req) ==
  /\ req \in PostRequests("delete_sync")
  /\ IF delete_sync(req, store).call
     THEN \E deleted \in {"ok", "api_error", "error"} :
            /\ store' = [store EXCEPT !.exists = (deleted # "ok")]
            /\ served' = Serve(req,
                               CASE deleted = "ok" -> Answer(302, "main.index")
                                 [] deleted = "api_error" -> Answer(503, "Firestore error")
                                 [] OTHER -> Answer(500, "Error deleting sync"),
                               "none", 0)
     ELSE /\ served' = Serve(req, delete_sync(req, store), "none", 0)
          /\ UNCHANGED store
  /\ UNCHANGED << sources, doc, engine >>

\* edit_sync: the checks, then the update of the document with the
\* form's sources and their resolved names, then the automatic sync.  A
\* run reads the sources when it loads the document; the edits taken are
\* those that do not fall between a run's load and its fetch.
EditSync(req) ==
  /\ req \in EditRequests
  /\ IF edit_sync(req, store).call
     THEN /\ FreeRun # "none"
          /\ \A r \in Runs : pc[r] # "fetch"
          /\ \E form \in EditForms : \E fetched \in BOOLEAN :
               /\ sources' = form
               /\ doc' = [doc EXCEPT !.source_names =
                                       resolve_source_names(form, fetched)]
          /\ served' = Serve(req, CallEngine, FreeRun, 0)
     ELSE /\ served' = Serve(req, edit_sync(req, store), "none", 0)
          /\ UNCHANGED << sources, doc >>
  /\ UNCHANGED << store, engine >>

\* sync_one_user: the checks, then the call of sync_calendar_logic.
SyncOne(req) ==
  /\ req \in TaskRequests
  /\ IF sync_one_user(req).call
     THEN /\ FreeRun # "none"
          /\ served' = Serve(req, CallEngine, FreeRun, 0)
     ELSE served' = Serve(req, sync_one_user(req), "none", 0)
  /\ UNCHANGED << sources, doc, store, engine >>

\* The call a handler made: sync_calendar_logic starts.
StartInvoked(r) ==
  /\ served.by[r] # NoRequest
  /\ StartRun(r)

\* The answer of the handler that invoked run r, once the run has ended.
Response(r) ==
  CASE served.by[r].route = "run_sync" ->
         IF pc[r] = "raised"
         THEN [status |-> 500, body |-> "Sync failed. Please check logs for details."]
         ELSE [status |-> 302, body |-> "main.index"]
    [] served.by[r].route = "edit_sync" -> [status |-> 302, body |-> "main.index"]
    [] OTHER -> SyncOneResponse(r)

\* The sync document of feed O, present or not, of a user with or without
\* a refresh token; nothing handled yet.  Feed O has no event in the
\* window, so a run ends with its fetch stage.
InitRoutes ==
  /\ sources = << Source("ical", "O", "") >>
  /\ doc = NewDoc
  /\ dest = << >>
  /\ nextId = DestIdBase
  /\ store \in {st \in Stores : ~st.expired /\ st.refresh_ok}
  /\ creds = [r \in Runs |-> "none"]
  /\ listed = [r \in Runs |-> 0]
  /\ pc = [r \in Runs |-> "idle"]
  /\ now = [r \in Runs |-> 0]
  /\ items = [r \in Runs |-> << >>]
  /\ uids = [r \in Runs |-> << >>]
  /\ parallel = [r \in Runs |-> TRUE]
  /\ pending = [r \in Runs |-> {}]
  /\ emap = [r \in Runs |-> << >>]
  /\ pos = [r \in Runs |-> 1]
  /\ fetches = [r \in Runs |-> << >>]
  /\ lookups = [r \in Runs |-> << >>]
  /\ writes = [r \in Runs |-> << >>]
  /\ prior = [r \in Runs |-> [done |-> {}, dest |-> << >>]]
  /\ served = NoServed
  /\ http = NoHttp
  /\ pool = [r \in Runs |-> NoPool]

NextRoutes ==
  \/ \E req \in PostRequests("run_sync") : RunSync(req)
  \/ \E req \in PostRequests("delete_sync") : DeleteSync(req)
  \/ \E req \in EditRequests : EditSync(req)
  \/ \E req \in TaskRequests : SyncOne(req)
  \/ \E r \in Runs : StartInvoked(r) \/ FetchSources(r)

SpecRoutes == InitRoutes /\ [][NextRoutes]_vars

\* ---------------------------------------------------- claims on the routes
\* The window both tests of the manual trigger expect, in minutes.
RATE_LIMIT_MINUTES == 5

\* instant t is less than RATE_LIMIT_MINUTES after the synchronisation at last
Recent(t, last) ==
  /\ last # 0
  /\ (t - last) * 24 * 60 < RATE_LIMIT_MINUTES * TicksPerDay

\* C24: a manual trigger (POST /sync/<sync_id>) by the owner for a
\* configuration whose last_synced_at is less than 5 minutes old does not
\* invoke sync_calendar_logic: no run invoked by run_sync starts within
\* 5 minutes of the last_synced_at its handler read.
C24_ManualRateLimit ==
  \A r \in Runs :
    (served.by[r].route = "run_sync" /\ now[r] # 0)
      => ~Recent(now[r], served.by[r].seen)

\* a step of one of the three handlers that check ownership, for req
OwnedStep(req) ==
  \/ req \in PostRequests("run_sync") /\ RunSync(req)
  \/ req \in EditRequests /\ EditSync(req)
  \/ req \in PostRequests("delete_sync") /\ DeleteSync(req)

\* the step invoked no run and left the configuration as it was
Refused ==
  /\ served'.last.run = "none"
  /\ served'.by = served.by
  /\ UNCHANGED << sources, doc, store, pc >>

C25_Step ==
  \A req \in PostRequests("run_sync") \cup EditRequests \cup PostRequests("delete_sync") :
    OwnedStep(req) =>
      /\ req.user = ""
           => served'.last.status = 302 /\ served'.last.body = "auth.login" /\ Refused
      /\ (req.user \notin {"", Owner} /\ store.exists)
           => served'.last.status = 403 /\ Refused
      /\ (req.user # "" /\ ~store.exists)
           => served'.last.status = 404 /\ Refused

\* C25: run_sync, edit_sync and delete_sync answer a logged-in identity
\* that is not the configuration's user_id with 403, a request without a
\* session user with a redirect to the login, both without invoking the
\* engine and without updating or deleting the configuration, and answer
\* 404 for a missing configuration.
C25_OwnershipCheck == [][C25_Step]_vars

\* the run the step passed its request to, as the call of route
Invoked(route, r) ==
  /\ served.by[r] = NoRequest
  /\ served'.by = [served.by EXCEPT ![r] = [route |-> route, seen |-> 0]]
  /\ served'.last.run = r
  /\ pc[r] = "idle"

C26_Step ==
  /\ (served' # served /\ served'.last.route = "sync_one") =>
       \A req \in TaskRequests :
         SyncOne(req) =>
           /\ ~req.auth => served'.last.status = 403 /\ Refused
           /\ (req.auth /\ req.payload # "id") => served'.last.status = 400 /\ Refused
           /\ (req.auth /\ req.payload = "id") =>
                Cardinality({r \in Runs : Invoked("sync_one", r)}) = 1
  /\ \A r \in Runs :
       (served'.by[r].route = "sync_one" /\ Ended(r)') =>
         Response(r)'.status = (IF pc'[r] = "raised" THEN 500 ELSE 200)

MaxHops == 2

\* What getaddrinfo gives for a hostname: no address (gaierror), or
\* addresses of these kinds.
Resolutions ==
  { {}, {"public"}, {"private"}, {"loopback"}, {"link_local"},
    {"public", "private"} }

\* A URL by what validate_url looks at: its scheme, whether it has a
\* hostname, and what the hostname resolves to.
Urls ==
  [scheme : {"http", "https", "file"}, hostname : {TRUE}, resolved : Resolutions]
  \cup [scheme : {"http", "file"}, hostname : {FALSE}, resolved : {{}}]

\* validate_url: "ok" when it returns, else the ValueError it raises.  A
\* hostname that does not resolve passes.
validate_url(url) ==
  IF url.scheme \notin {"http", "https"} THEN "Invalid scheme"
  ELSE IF ~url.hostname THEN "Invalid hostname"
  ELSE IF url.resolved \cap {"private", "loopback", "link_local"} # {}
       THEN "Restricted IP address"
  ELSE "ok"

\* A response as the hooks see it: a redirect with a Location, or any
\* other response; the peer address of its connection, when the response
\* still holds the socket.
Responses ==
  [redirect : BOOLEAN, location : Urls, peer : {"public", "private", "unknown"}]

NoRedirectCheck(resp) == "ok"

\* check_redirect: the target of a redirect response is validated
check_redirect(resp) ==
  IF resp.redirect THEN validate_url(resp.location) ELSE "ok"

\* check_ip: the connected address is checked when it can be read
check_ip(resp) ==
  IF resp.peer \in {"private", "loopback", "link_local"}
  THEN "Restricted IP address connected" ELSE "ok"

\* safe_requests_get up to requests.get: the URL is validated.
ValidateFirst ==
  /\ http.stage = "validate"
  /\ http' = IF validate_url(http.url) = "ok"
             THEN [http EXCEPT !.stage = "send"]
             ELSE [http EXCEPT !.stage = "done", !.result = "error"]
  /\ UNCHANGED << sources, doc, store, served, engine_but_http >>

\* requests sends one request of the chain; the connection fails, or the
\* response passes through the hooks check_redirect and check_ip and then
\* is returned or, being a redirect, followed.
SendRequest ==
  /\ http.stage = "send"
  /\ \/ http' = [http EXCEPT !.sent = Append(@, http.url), !.stage = "done",
                             !.result = "error"]
     \/ \E resp \in Responses :
          /\ resp.redirect => Len(http.sent) + 1 < MaxHops
          /\ ~resp.redirect => resp.location = http.url
          /\ http' =
               IF check_redirect(resp) # "ok"
               THEN [url |-> resp.location, stage |-> "done",
                     sent |-> Append(http.sent, http.url), result |-> "error"]
               ELSE IF check_ip(resp) # "ok"
               THEN [http EXCEPT !.sent = Append(@, http.url), !.stage = "done",
                                 !.result = "error"]
               ELSE IF resp.redirect
               THEN [url |-> resp.location, stage |-> "send",
                     sent |-> Append(http.sent, http.url), result |-> "none"]
               ELSE [http EXCEPT !.sent = Append(@, http.url), !.stage = "done",
                                 !.result = "body"]
  /\ UNCHANGED << sources, doc, store, served, engine_but_http >>

\* safe_requests_get called with any URL.
InitGet ==
  /\ sources = << >>
  /\ doc = NewDoc
  /\ dest = << >>
  /\ nextId = DestIdBase
  /\ store = NormalStore
  /\ creds = [r \in Runs |-> "none"]
  /\ listed = [r \in Runs |-> 0]
  /\ pc = [r \in Runs |-> "done"]
  /\ now = [r \in Runs |-> 0]
  /\ items = [r \in Runs |-> << >>]
  /\ uids = [r \in Runs |-> << >>]
  /\ parallel = [r \in Runs |-> TRUE]
  /\ pending = [r \in Runs |-> {}]
  /\ emap = [r \in Runs |-> << >>]
  /\ pos = [r \in Runs |-> 1]
  /\ fetches = [r \in Runs |-> << >>]
  /\ lookups = [r \in Runs |-> << >>]
  /\ writes = [r \in Runs |-> << >>]
  /\ prior = [r \in Runs |-> [done |-> {}, dest |-> << >>]]
  /\ served = NoServed
  /\ \E url \in Urls :
       http = [url |-> url, stage |-> "validate", sent |-> << >>, result |-> "none"]
  /\ pool = [r \in Runs |-> NoPool]

NextGet == ValidateFirst \/ SendRequest

SpecGet == InitGet /\ [][NextGet]_vars

\* a URL the guard is to keep the fetch from: a scheme other than HTTP(S),
\* or a resolved address that is private, loopback or link-local
Restricted(url) ==
  \/ url.scheme \notin {"http", "https"}
  \/ url.resolved \cap {"private", "loopback", "link_local"} # {}

\* C27: safe_requests_get validates the URL before the request is sent and
\* every redirect target before it is followed: no request is ever sent to
\* a URL with a non-HTTP(S) scheme or a private, loopback or link-local
\* resolved address, and a call led to such a URL ends with an error, not
\* with a body.
C27_SsrfGuard ==
  /\ \A i \in 1..Len(http.sent) : ~Restricted(http.sent[i])
  /\ http.stage = "send" => validate_url(http.url) = "ok"
  /\ (http.stage \in {"send", "done"} /\ Restricted(http.url)) =>
       http.stage = "done" /\ http.result = "error"

\* a redirect led to a restricted URL after the first request: the call
\* ended with an error and sent no further request
C27_Witness ==
  /\ http.stage = "done"
  /\ Len(http.sent) = 1
  /\ Restricted(http.url)
  /\ http.url # http.sent[1]
  /\ http.result = "error"

\* ------------------------------------------------- the pools of one run
\* The futures of the fetch pool not yet done.
InFlightFetches(p) ==
  Range(p.submitted) \ {p.completed[i].key : i \in 1..Len(p.completed)}

\* The futures of the lookup pool not yet done.
InFlightLookups(r) == IF pool[r].looking THEN pending[r] ELSE {}

FetchPoolDetached(p) == p.submitted # << >>

\* The end of the with block of the fetch pool: as_completed has yielded
\* every future and the executor has shut down.
FetchPoolJoined(p) == p.submitted # << >> /\ InFlightFetches(p) = {}

CollectByPosition(submitted, completed) ==
  [key \in {submitted[i] : i \in 1..Len(completed)} |->
     completed[CHOOSE i \in 1..Len(completed) : submitted[i] = key].outcome]

\* results_map as the as_completed loop fills it: each future's result
\* under the key of its future.
Collected(submitted, completed) ==
  [key \in {completed[i].key : i \in 1..Len(completed)} |->
     completed[CHOOSE i \in 1..Len(completed) : completed[i].key = key].outcome]

\* executor.submit of _fetch_source_data for every unique source
SubmitFetches(r) ==
  /\ pc[r] = "fetch"
  /\ pool[r].submitted = << >>
  /\ pool' = [pool EXCEPT ![r].submitted = FetchCalls(sources)]
  /\ UNCHANGED << sources, doc, dest, nextId, store, pc, creds, listed, now,
                  items, uids, parallel, pending, emap, pos, fetches, lookups,
                  writes, prior, served, http >>

\* One future of the fetch pool is done, in any order, and as_completed
\* yields it.
CompleteFetch(r) ==
  /\ \E key \in InFlightFetches(pool[r]) : \E outcome \in FetchOutcomes(key) :
       pool' = [pool EXCEPT ![r].completed =
                              Append(@, [key |-> key, outcome |-> outcome])]
  /\ UNCHANGED << sources, doc, dest, nextId, store, pc, creds, listed, now,
                  items, uids, parallel, pending, emap, pos, fetches, lookups,
                  writes, prior, served, http >>

\* The fetch pool is left: step 3 of _fetch_source_events and the rest of
\* sync_calendar_logic up to the lookups.
JoinFetches(r) ==
  /\ pc[r] = "fetch"
  /\ FetchPoolJoined(pool[r])
  /\ FetchWith(r, Collected(pool[r].submitted, pool[r].completed))

\* executor.submit of _fetch_existing_events_chunk for every chunk
SubmitLookups(r) ==
  /\ pc[r] = "lookup"
  /\ ~pool[r].looking
  /\ pool' = [pool EXCEPT ![r].looking = TRUE]
  /\ UNCHANGED << sources, doc, dest, nextId, store, pc, creds, listed, now,
                  items, uids, parallel, pending, emap, pos, fetches, lookups,
                  writes, prior, served, http >>

\* One future of the lookup pool is done.
CompleteLookup(r) ==
  /\ pool[r].looking
  /\ LookupChunk(r)

\* The runs of a configuration of two feeds, with credentials that report
\* expired, on a new destination calendar.
InitPool ==
  /\ sources = << Source("ical", "A", "P1"), Source("", "B", "P2") >>
  /\ doc = NewDoc
  /\ dest = << >>
  /\ nextId = DestIdBase + 1
  /\ store = [NormalStore EXCEPT !.expired = TRUE]
  /\ creds = [r \in Runs |-> "none"]
  /\ listed = [r \in Runs |-> 0]
  /\ pc = [r \in Runs |-> "idle"]
  /\ now = [r \in Runs |-> 0]
  /\ items = [r \in Runs |-> << >>]
  /\ uids = [r \in Runs |-> << >>]
  /\ parallel = [r \in Runs |-> TRUE]
  /\ pending = [r \in Runs |-> {}]
  /\ emap = [r \in Runs |-> << >>]
  /\ pos = [r \in Runs |-> 1]
  /\ fetches = [r \in Runs |-> << >>]
  /\ lookups = [r \in Runs |-> << >>]
  /\ writes = [r \in Runs |-> << >>]
  /\ prior = [r \in Runs |-> [done |-> {}, dest |-> << >>]]
  /\ served = NoServed
  /\ http = NoHttp
  /\ pool = [r \in Runs |-> NoPool]

NextPool ==
  \E r \in Runs :
    \/ StartRun(r)
    \/ SubmitFetches(r)
    \/ CompleteFetch(r)
    \/ JoinFetches(r)
    \/ SubmitLookups(r)
    \/ CompleteLookup(r)
    \/ UpsertBatch(r)

SpecPool == InitPool /\ [][NextPool]_vars

\* ----------------------------------------------------- claims on the pools
\* C28: within one run no destination lookup is issued while a source
\* fetch of that run is in flight, and no write batch is executed while a
\* lookup batch is in flight: the stages fetch, lookup and upsert follow
\* one another.
C28_StageOrdering ==
  \A r \in Runs :
    /\ (pool[r].looking \/ lookups[r] # << >>) =>
         /\ pool[r].submitted # << >>
         /\ InFlightFetches(pool[r]) = {}
    /\ (pc[r] = "upsert" \/ writes[r] # << >>) =>
         /\ InFlightFetches(pool[r]) = {}
         /\ InFlightLookups(r) = {}
    /\ pc[r] = "fetch" => ~pool[r].looking /\ lookups[r] = << >> /\ writes[r] = << >>
    /\ pc[r] = "lookup" => writes[r] = << >>

\* a run has a lookup in flight after both of its fetches completed, while
\* the other run still has a fetch in flight
C28_Witness ==
  \E r \in Runs : \E q \in Runs :
    /\ InFlightLookups(r) # {}
    /\ Len(pool[r].completed) = 2
    /\ InFlightFetches(pool[q]) # {}

\* run r has left _fetch_source_events
Merged(r) == pc[r] \notin {"idle", "fetch"} /\ pool[r].submitted # << >>

\* the fetch results of run r, whatever order they completed in
ResultSet(r) == Range(pool[r].completed)

\* the position in the configuration of the source an item came from
SourceIndex(item) == CHOOSE k \in 1..Len(sources) : sources[k].prefix = item.prefix

C30_Step ==
  \A r \in Runs :
    (creds'[r] # creds[r] /\ creds[r] # "none") =>
      /\ creds[r] = "loaded"
      /\ pool[r].submitted # << >> /\ InFlightFetches(pool[r]) = {}
      /\ ~pool[r].looking /\ ~pool'[r].looking
      /\ lookups[r] = << >>
      /\ pool' = pool /\ lookups' = lookups

NoStart(c) == IF c.google THEN c.start = None ELSE c.dtstart = None

\* C31: a candidate without a start, an iCal component or an event of a
\* remote calendar, with or without a recurrence rule, gets no create and
\* no update request.
C31_NoStartDropped ==
  \A r \in Runs :
    \A i \in 1..Len(items[r]) :
      NoStart(Component(r, i)) => WritesOfItem(r, i) = {}

\* The written end is the written start moved by the duration, in the
\* representation of the written start: a date plus whole days, a
\* timestamp plus ticks with the offset of the start.
StartPlus(start, end, duration) ==
  IF "date" \in DOMAIN start
  THEN end = [date |-> start.date + (duration.v \div TicksPerDay)]
  ELSE end = [dateTime |-> IsoDT(start.dateTime.t + duration.v,
                                 start.dateTime.tz)]

\* The end as the feed gives it: a date as date, a timestamp with its own
\* offset, a timestamp without offset as UTC.
GivenEnd(dtend) ==
  IF dtend.kind = "date" THEN [date |-> dtend.v]
  ELSE [dateTime |-> IsoDT(dtend.v, IF dtend.kind = "naive" THEN "utc" ELSE "own")]

\* what the upsert loop has passed of r's candidates
Passed(r) == {i \in 1..Len(items[r]) : i < pos[r]}

\* C32: in every write request for an iCal event the end is the event's
\* end when it has one; without an end but with a duration it is start +
\* duration in the representation of the written start (a date stays a
\* date, a start without offset gives a UTC end); with neither the body has
\* no end field.  Every iCal event with UID and start the upsert loop has
\* passed has its write request, whatever its end.
C32_EndTimePolicy ==
  \A r \in Runs :
    /\ \A j \in 1..Len(writes[r]) :
         LET c == Component(r, writes[r][j].req.item)
             body == writes[r][j].req.body
         IN ~c.google =>
              /\ c.dtend # None =>
                   /\ "end" \in DOMAIN body
                   /\ body["end"] = GivenEnd(c.dtend)
              /\ (c.dtend = None /\ c.duration # None) =>
                   /\ "end" \in DOMAIN body
                   /\ StartPlus(body["start"], body["end"], c.duration)
                   /\ c.dtstart.kind = "date" => "date" \in DOMAIN body["end"]
                   /\ c.dtstart.kind = "naive" => body["end"].dateTime.tz = "utc"
              /\ (c.dtend = None /\ c.duration = None) =>
                   "end" \notin DOMAIN body
    /\ \A i \in Passed(r) :
         LET c == Component(r, i)
         IN (~c.google /\ c.uid # 0 /\ c.dtstart # None)
              => Cardinality(WritesOfItem(r, i)) = 1

\* One run has written an event whose start carries an offset and one
\* whose start carries none, both with a duration and no end.
C32_Witness ==
  \E r \in Runs :
    \E j, k \in 1..Len(writes[r]) :
      /\ ~Component(r, writes[r][j].req.item).google
      /\ ~Component(r, writes[r][k].req.item).google
      /\ Component(r, writes[r][j].req.item).dtstart.kind = "aware"
      /\ Component(r, writes[r][k].req.item).dtstart.kind = "naive"
      /\ Component(r, writes[r][k].req.item).dtend = None
      /\ "end" \in DOMAIN writes[r][j].req.body
      /\ "end" \in DOMAIN writes[r][k].req.body

\* The start of an iCal event as an instant: a date is 00:00 UTC of that
\* day, a timestamp without offset is read as UTC.
StartInstant(dtstart) ==
  IF dtstart.kind = "date" THEN dtstart.v * TicksPerDay ELSE dtstart.v

\* the events of feed url among r's candidates
Included(r, url) ==
  {e \in Range(FeedEvents(url)) : \E i \in 1..Len(items[r]) : Component(r, i) = e}

InitPages ==
  /\ sources = << Source("google", "G", "PG"), Source("ical", "A", "P1") >>
  /\ doc = NewDoc
  /\ dest = << >>
  /\ nextId = DestIdBase + 1
  /\ store = NormalStore
  /\ creds = [r \in Runs |-> "none"]
  /\ listed = [r \in Runs |-> 0]
  /\ pc = [r \in Runs |-> "idle"]
  /\ now = [r \in Runs |-> 0]
  /\ items = [r \in Runs |-> << >>]
  /\ uids = [r \in Runs |-> << >>]
  /\ parallel = [r \in Runs |-> TRUE]
  /\ pending = [r \in Runs |-> {}]
  /\ emap = [r \in Runs |-> << >>]
  /\ pos = [r \in Runs |-> 1]
  /\ fetches = [r \in Runs |-> << >>]
  /\ lookups = [r \in Runs |-> << >>]
  /\ writes = [r \in Runs |-> << >>]
  /\ prior = [r \in Runs |-> [done |-> {}, dest |-> << >>]]
  /\ served = NoServed
  /\ http = NoHttp
  /\ pool = [r \in Runs |-> NoPool]

SpecPages == InitPages /\ [][Next]_vars

\* the events of remote calendars among r's candidates, in their order
GoogleComponents(r) ==
  LET g == SelectSeq(items[r], LAMBDA it : it.component.google)
  IN [i \in 1..Len(g) |-> g[i].component]

\* what the remote holds of calendar id for r's window, in start order
Listing(r, id) ==
  SelectSeq(GCalEvents(id),
            LAMBDA e : /\ GInstant(e.end) > Window(r).start
                       /\ GInstant(e.start) < Window(r).end)

C34_Step ==
  \A r \in Runs :
    FetchStep(r) =>
      \A k \in 1..Len(sources) :
        sources[k].type = "google" =>
          /\ OutcomeOf(r, sources[k])' = "ok" =>
               /\ GoogleComponents(r)' = Listing(r, sources[k].url)'
               /\ doc'.source_names[sources[k].url] = GCalSummary(sources[k].url)
          /\ OutcomeOf(r, sources[k])' # "ok" =>
               /\ GoogleComponents(r)' = << >>
               /\ doc'.source_names[sources[k].url] = sources[k].url \o " (Failed)"
               /\ pc'[r] \in {"lookup", "upsert", "done"}
               /\ \A q \in 1..Len(sources) :
                    OutcomeOf(r, sources[q])' = "ok" =>
                      \A c \in Range(FeedEvents(sources[q].url)) :
                        InWindow(StartInstant(c.dtstart), Window(r))
                          => \E i \in 1..Len(items'[r]) : items'[r][i].component = c

\* C34: when every page request of a remote calendar succeeds, its
\* candidates are the items of all pages in page order and its stored name
\* is the calendar's summary; when the first or a later page request
\* fails, the run has no candidate of that calendar (none of the pages
\* already fetched), stores "<locator> (Failed)" as its name, does not
\* raise and has the events of the other sources as candidates.
C34_PaginationAllOrNothing == [][C34_Step]_vars

\* A run has returned after the request for the second page of calendar G
\* failed: no candidate is of G, the event of feed A was written.
C34_Witness ==
  \E r \in Runs :
    /\ pc[r] = "done"
    /\ OutcomeOf(r, sources[1]) = "page2"
    /\ OutcomeOf(r, sources[2]) = "ok"
    /\ GoogleComponents(r) = << >>
    /\ doc.source_names["G"] = "G (Failed)"
    /\ \E j \in 1..Len(writes[r]) :
         /\ writes[r][j].ok
         /\ ServedBy(sources[2], Component(r, writes[r][j].req.item))

\* ------------------------------------------------ claims on what is written
\* the locators of the configured sources
Locators == {sources[k].url : k \in 1..Len(sources)}

C36_Step ==
  /\ sources' = sources
  /\ store' = store
  /\ doc' = [doc EXCEPT !.source_names = doc'.source_names,
                        !.last_synced_at = doc'.last_synced_at]

\* C36: no step of a run creates or deletes a sync document or touches
\* another one, and of the run's document a step changes at most
\* source_names and last_synced_at: owner, destination id and the source
\* list stay as they were.
C36_ConfigurationFrame == [][C36_Step]_vars

\* A run has returned after it stored the names and the time of its
\* fetch; the document still has its owner and destination.
C36_Witness ==
  \E r \in Runs :
    /\ pc[r] = "done"
    /\ writes[r] # << >>
    /\ doc.last_synced_at = now[r]
    /\ DOMAIN doc.source_names = Locators
    /\ doc.user_id = NewDoc.user_id
    /\ doc.destination_calendar_id = NewDoc.destination_calendar_id

\* C37: a run issues at most one write request, create or update, for
\* any UID, and no write batch holds two requests with the same request
\* id, also when a locator is configured twice or two sources serve the
\* same UID.
C37_OneWritePerIdentity ==
  \A r \in Runs :
    \A j, k \in 1..Len(writes[r]) :
      writes[r][j].req.request_id = writes[r][k].req.request_id => j = k

\* ----------------------------- lookup and upsert of one run on many items
\* The run of a configuration whose sources gave ResolveItems candidates (every
\* SkipEvery-th without UID), on a destination that holds every
\* DestEvery-th UID: from the entry of _get_existing_events_map to the end
\* of _batch_upsert_events.
InitResolve ==
  /\ sources = << >>
  /\ doc = NewDoc
  /\ store = NormalStore
  /\ creds = [r \in Runs |-> "loaded"]
  /\ listed = [r \in Runs |-> 0]
  /\ dest = [k \in 1..(ResolveItems \div DestEvery) |-> StoredEvent(k * DestEvery)]
  /\ nextId = DestIdBase + ResolveItems + 1
  /\ items = [r \in Runs |->
                IF r = "first" THEN [i \in 1..ResolveItems |-> UpsertItem(i)] ELSE << >>]
  /\ \E order \in UidOrders(EventUids(items["first"])) :
       /\ uids = [r \in Runs |-> IF r = "first" THEN order ELSE << >>]
       /\ pending = [r \in Runs |->
                       IF r = "first" THEN DOMAIN Chunks(order, batch_limit) ELSE {}]
  /\ pc = [r \in Runs |->
             IF r = "first"
             THEN LookupPc(GivenUids(EventUids(items["first"])), items["first"])
             ELSE "done"]
  /\ parallel = [r \in Runs |-> TRUE]
  /\ now = [r \in Runs |-> 0]
  /\ emap = [r \in Runs |-> << >>]
  /\ pos = [r \in Runs |-> 1]
  /\ fetches = [r \in Runs |-> << >>]
  /\ lookups = [r \in Runs |-> << >>]
  /\ writes = [r \in Runs |-> << >>]
  /\ prior = [r \in Runs |-> [done |-> {}, dest |-> dest]]
  /\ served = NoServed
  /\ http = NoHttp
  /\ pool = [r \in Runs |-> NoPool]

NextResolve == \E r \in Runs : LookupChunk(r) \/ UpsertBatch(r)

SpecResolve == InitResolve /\ [][NextResolve]_vars

\* the lookup batches of r so far that failed as a whole, and the others
FailedLookups(r) == {j \in 1..Len(lookups[r]) : lookups[r][j].transport}

AnsweredLookups(r) == {j \in 1..Len(lookups[r]) : ~lookups[r][j].transport}

\* C38: when a lookup batch has failed at transport level the run goes on
\* through the remaining lookups and the upsert stage to its end; no UID
\* of the failed batch is a key of the index, and every write request for
\* such a UID is a create, also when the destination holds an event with
\* that UID; every UID of a batch that did not fail, whose own lookup
\* was answered and found an event, is a key of the index with that
\* event's id.
C38_LookupFailureAbsorbed ==
  \A r \in Runs :
    /\ FailedLookups(r) # {} => pc[r] \in {"lookup", "upsert", "done"}
    /\ \A j \in FailedLookups(r) :
         \A uid \in Range(lookups[r][j].uids) :
           /\ uid \notin DOMAIN emap[r]
           /\ \A w \in 1..Len(writes[r]) :
                writes[r][w].req.request_id = uid => writes[r][w].req.op = "import"
    /\ \A j \in AnsweredLookups(r) :
         \A uid \in Range(lookups[r][j].uids) \ lookups[r][j].errs :
           DestItems(prior[r].dest, uid) # << >> =>
             /\ uid \in DOMAIN emap[r]
             /\ emap[r][uid] = DestItems(prior[r].dest, uid)[1].id
    /\ (pc[r] = "done" /\ FailedLookups(r) # {}) =>
         \A i \in 1..Len(items[r]) : HasBody(r, i) => WritesOfItem(r, i) # {}

\* A run has ended after one of its two lookup batches failed: a UID of
\* that batch which the destination held was written as a create, a UID
\* of another batch as an update.
C38_Witness ==
  /\ pc["first"] = "done"
  /\ Len(lookups["first"]) = 2
  /\ Cardinality(FailedLookups("first")) = 1
  /\ \E j \in FailedLookups("first") :
       \E w \in 1..Len(writes["first"]) :
         /\ writes["first"][w].req.request_id \in Range(lookups["first"][j].uids)
         /\ writes["first"][w].held
         /\ writes["first"][w].req.op = "import"
  /\ \E w \in 1..Len(writes["first"]) : writes["first"][w].req.op = "update"

\* Every key of r's index is a candidate UID of r whose lookup was answered
\* with at least one event, mapped to the id of a destination event that
\* has the key as its iCalUID.
IndexSound(r) ==
  \A uid \in DOMAIN emap[r] :
    /\ uid \in Range(EventUids(items[r]))
    /\ Answered(r, uid)
    /\ DestItems(prior[r].dest, uid) # << >>
    /\ \E k \in 1..Len(dest) : dest[k].id = emap[r][uid] /\ dest[k].iCalUID = uid

C39_Step ==
  \A r \in Runs :
    /\ IndexSound(r)'
    /\ \A uid \in DOMAIN emap[r] :
         uid \in DOMAIN emap'[r] /\ emap'[r][uid] = emap[r][uid]

\* C39: every key of the destination index is a candidate UID of the run
\* for which the destination returned at least one event, and its value
\* is the id of a destination event whose iCalUID is the key, so that a
\* UID whose lookup returned no item or an error is no key; the merge of a
\* batch's result removes no entry an earlier batch gave and changes none.
C39_IndexSoundness == [][C39_Step]_vars

\* Both lookup batches of a run were answered, the second to finish being
\* the first in UID order, and each gave the index a key; one UID's lookup
\* returned an error and one UID the destination does not hold.
C39_Witness ==
  /\ pc["first"] = "upsert"
  /\ Len(lookups["first"]) = 2
  /\ lookups["first"][1].chunk = 2
  /\ AnsweredLookups("first") = {1, 2}
  /\ \A j \in {1, 2} :
       \E uid \in Range(lookups["first"][j].uids) : uid \in DOMAIN emap["first"]
  /\ \E j \in {1, 2} :
       \E uid \in lookups["first"][j].errs :
         DestItems(dest, uid) # << >> /\ uid \notin DOMAIN emap["first"]
  /\ \E uid \in Range(uids["first"]) : DestItems(dest, uid) = << >>

====
